---- MODULE Spec2Model ----
(***************************************************************************)
(* Event-sourcing pipeline of cim-domain-git: the JetStream event store,   *)
(* the projection manager with the repository-stats projection, the        *)
(* command subscriber and the command acknowledgment protocol.             *)
(*                                                                         *)
(* Four specifications share the variables:                                *)
(*   Spec      the event store: append, publish, load_aggregate_events     *)
(*   ProjSpec  the projection manager: live processing and rebuild         *)
(*   CmdSpec   command subscribers and the acknowledgments they publish    *)
(*   AckWaitSpec  one command and a subscribe_to_command call, with the    *)
(*             scheduling fairness of the task runtime                     *)
(***************************************************************************)
EXTENDS Integers, Sequences, FiniteSets, TLC

(***************************************************************************)
(* Bounds                                                                  *)
(***************************************************************************)
\* messages the event stream receives in one run
MaxLog == 3

\* ticks of the wall clock in one run
MaxTime == 2

\* envelopes in one append_batch call
MaxBatch == 3

\* heartbeats counted before the count wraps
MaxBeats == 2

\* messages a long-lived task takes from its subscription
MaxServed == 2

\* events applied to one Repository aggregate
MaxApplied == 4

\* events handled by one domain projection
MaxHandled == 3

\* the latest commit timestamp
MaxCommitTime == 3

\* the highest churn rate, in tenths of a change per day
MaxChurn == 16

None == "none"

(***************************************************************************)
(* Domain values                                                           *)
(***************************************************************************)
Aggregates == {"R1", "R2"}

\* the envelopes the event store runs append: <<event type, repository,
\* commit timestamp>>; RepositoryMetadataUpdated is an event type without a
\* subject
StoreEnvelopes ==
    { <<"RepositoryCloned", "R1", 1>>, <<"CommitAnalyzed", "R1", 2>>,
      <<"CommitAnalyzed", "R2", 1>>, <<"RepositoryMetadataUpdated", "R2", 1>> }

\* the variants of EventAction
EventActions ==
    { "RepositoryCloned", "RepositoryDeleted", "RepositoryAnalyzed",
      "CommitAnalyzed", "BranchCreated", "BranchDeleted", "BranchMerged",
      "TagCreated", "TagDeleted", "RemoteAdded", "RemoteRemoved",
      "RemoteFetched", "RemotePushed", "FileAnalyzed", "MergeDetected" }

\* EventAction::as_str
EventActionAsStr(action) ==
    CASE action = "RepositoryCloned"   -> "cloned"
      [] action = "RepositoryDeleted"  -> "deleted"
      [] action = "RepositoryAnalyzed" -> "analyzed"
      [] action = "CommitAnalyzed"     -> "analyzed"
      [] action = "BranchCreated"      -> "created"
      [] action = "BranchDeleted"      -> "deleted"
      [] action = "BranchMerged"       -> "merged"
      [] action = "TagCreated"         -> "created"
      [] action = "TagDeleted"         -> "deleted"
      [] action = "RemoteAdded"        -> "added"
      [] action = "RemoteRemoved"      -> "removed"
      [] action = "RemoteFetched"      -> "fetched"
      [] action = "RemotePushed"       -> "pushed"
      [] action = "FileAnalyzed"       -> "analyzed"
      [] action = "MergeDetected"      -> "detected"

\* EventAction::aggregate with Display of Aggregate
EventActionAggregate(action) ==
    CASE action \in {"RepositoryCloned", "RepositoryDeleted", "RepositoryAnalyzed"}
             -> "repository"
      [] action \in {"CommitAnalyzed", "FileAnalyzed", "MergeDetected"}
             -> "commit"
      [] action \in {"BranchCreated", "BranchDeleted", "BranchMerged"}
             -> "branch"
      [] action \in {"TagCreated", "TagDeleted"}
             -> "tag"
      [] action \in {"RemoteAdded", "RemoteRemoved", "RemoteFetched", "RemotePushed"}
             -> "remote"

\* GitSubject::event
GitSubjectEvent(action) ==
    [message_type |-> "event", aggregate |-> EventActionAggregate(action),
     action |-> EventActionAsStr(action)]

\* Display of GitSubject: DOMAIN.message_type.aggregate.action
SubjectToString(subject) ==
    "git" \o "." \o subject.message_type \o "." \o subject.aggregate
          \o "." \o subject.action

\* SubjectMapper::event_subject with GitSubject::event and its Display:
\* git.event.<aggregate>.<action> of an event type name, or None
event_subject(event_type) ==
    IF event_type \in EventActions
    THEN SubjectToString(GitSubjectEvent(event_type))
    ELSE None

\* the subjects the event stream captures: those matching git.event.>
EventStreamSubjects ==
    { "git.event.repository.cloned", "git.event.repository.deleted",
      "git.event.repository.analyzed", "git.event.commit.analyzed",
      "git.event.commit.detected", "git.event.branch.created",
      "git.event.branch.deleted", "git.event.branch.merged",
      "git.event.tag.created", "git.event.tag.deleted",
      "git.event.remote.added", "git.event.remote.removed",
      "git.event.remote.fetched", "git.event.remote.pushed" }

\* metadata of a root envelope that names no cause
NewMetadataUncaused(id, at) ==
    [event_id |-> id, correlation_id |-> id, causation_id |-> 0,
     occurred_at |-> at]

\* EventMetadata::new: a root envelope's metadata; id is the fresh
\* Uuid::new_v4(), at is Utc::now()
NewMetadata(id, at) ==
    [event_id |-> id, correlation_id |-> id, causation_id |-> id,
     occurred_at |-> at]

\* a domain event: its type, its repository and its commit timestamp
NewEvent(event_type, agg, ts) ==
    [event_type |-> event_type, repository_id |-> agg, commit_timestamp |-> ts]

\* EventEnvelope::new
NewEnvelope(id, at, event_type, agg, ts) ==
    [metadata |-> NewMetadata(id, at),
     event    |-> NewEvent(event_type, agg, ts)]

\* serde_json::to_vec(&envelope): the JSON object of an envelope
SerializeEnvelope(env) ==
    [json |-> "object",
     metadata |-> env.metadata,
     event |-> env.event]

\* serde_json::to_vec(&event): the JSON object of a bare domain event
SerializeEvent(event) ==
    [json |-> "object",
     event_type |-> event.event_type,
     repository_id |-> event.repository_id,
     commit_timestamp |-> event.commit_timestamp]

\* serde_json::from_slice::<EventEnvelope>: Ok(envelope) or Err
ParseEnvelope(payload) ==
    IF /\ payload.json = "object"
       /\ "metadata" \in DOMAIN payload
       /\ "event" \in DOMAIN payload
    THEN [ok |-> TRUE,
          envelope |-> [metadata |-> payload.metadata, event |-> payload.event]]
    ELSE [ok |-> FALSE]

\* EventEnvelope::event_type
EnvelopeEventType(env) == env.event.event_type

\* EventEnvelope::aggregate_id
aggregate_id(env) == env.event.repository_id

(***************************************************************************)
(* State                                                                   *)
(***************************************************************************)
VARIABLES
    \* --- event stream (JetStream GIT_EVENTS) and the event stores
    log,          \* stored messages; a message's stream sequence is its index
    nextId,       \* source of fresh event ids
    appendState,  \* per event store: where its append call stands
    completed,    \* returned append calls, in return order
    appendedFor,  \* per aggregate: the envelopes written by append, in order
    loaded,       \* result of the last load_aggregate_events call
    \* --- projection manager
    registered,   \* names in the projections map
    running,      \* running_states
    task,         \* per projection: the spawned process_events task
    ackFloor,     \* per durable consumer: last acknowledged stream sequence
    position,     \* per projection: saved position, <<>> or <<sequence>>
    stats,        \* RepositoryStatsProjection.stats: repo id -> RepositoryStats
    applyHist,    \* per projection: sequences passed to apply since the last reset
    lastApplied,  \* per projection: <<>> or the last envelope and sequence applied
    ackedOutcomes, \* per projection: outcomes of the deliveries acknowledged
    appliedEvents, \* per projection: envelopes passed to apply since the last reset
    ackedSeqs,    \* per durable consumer: the stream sequences acknowledged, in order
    consumers,    \* names of the durable consumers the stream holds
    projLock,     \* holder of the write lock of the projections map, or None
    \* --- command subscribers and acknowledgments
    started,      \* the CommandSubscriber instances subscribed to git.cmd.>
    cmds,         \* the command messages published so far, by command id
    handling,     \* per instance and command: where handle_message stands
    ackStream,    \* per command id: the messages published on git.ack.<id>
    waiter,       \* the AckSubscriber::subscribe_to_command call
    now,          \* wall clock
    \* --- further event store operations
    batch,        \* the last append_batch call: its input and its result
    fetched,      \* the last get_events_after call: its input and its result
    corrFloor,    \* ack floor of the consumer the last load_by_correlation made
    corrLoaded,   \* the last load_by_correlation call: its input and its result
    created,      \* envelopes made by from_correlation, with the arguments given
    \* --- subjects, health, aggregate, projections and analyzers
    mapped,       \* the last two event names mapped to subjects, and the subjects
    drained,      \* the NATS connection has been drained: the shutdown signal
    loops,        \* per long-lived task: "running" or "stopped"
    served,       \* per long-lived task: messages taken from its subscription
    beats,        \* heartbeats published by the ticker, counted modulo MaxBeats + 1
    checks,       \* the registered health checks, each with the status its check() gives
    health,       \* the last health check: evaluation order and result
    repository,   \* the Repository aggregate
    applied,      \* number of apply_event calls on the aggregate
    commits,      \* CommitHistoryProjection: per repository, its list of commit entries
    commitsHandled, \* per repository: the commit entries of the CommitAnalyzed events handled
    queried,      \* the last get_history call: its input, the list it read and its result
    file_changes, \* FileChangeProjection: per path, the changes of the file
    commit_changes, \* FileChangeProjection: per commit hash in the map, the changes of the commit
    rename_history, \* FileChangeProjection: per path, the renames of the file
    fileHandled,  \* number of events the file-change projection has handled
    detected,     \* the last detect_circular_dependencies call: its input, the order the map was iterated in, and the cycles reported
    risk,         \* the last two calculate_risk_level calls, for one file and two churn rates
    owned,        \* the last calculate_ownership call: its input, the orders its maps were iterated in, and the events returned
    instant,      \* the monotonic clock (Instant::now)
    commit_graphs, \* GitCache.commit_graphs: per key in the map, its CacheEntry
    dependency_graphs, \* GitCache.dependency_graphs: per key in the map, its CacheEntry
    lastCached,   \* per cache and key: the value last cached and the instant of the call
    got,          \* the last get_commit_graph or get_dependency_graph call: cache, key, instant, whether the map held the key, what was last cached under it, and the result
    handlers,     \* per CommandSubscriber instance: its registry, the command types of its handlers in registration order
    reader,       \* a load call of the event store read message by message: the call, its arguments, the messages its consumer has delivered, and the envelopes kept
    manager       \* ProjectionManager calls: the holders of read guards of the projections map, and where status, start_all and rebuild_projection stand

storeVars == <<log, nextId, appendState, completed, appendedFor, loaded>>

projVars == <<registered, running, task, ackFloor, position, stats, applyHist,
              lastApplied, ackedOutcomes, appliedEvents, ackedSeqs, consumers,
              projLock>>

cmdVars == <<started, cmds, handling, ackStream, waiter, now>>

opsVars == <<batch, fetched, corrFloor, corrLoaded, created>>

natsVars == <<storeVars, projVars, cmdVars, opsVars>>

subjVars == <<mapped>>

svcVars == <<drained, loops, served, beats>>

healthVars == <<checks, health>>

aggVars == <<repository, applied>>

histVars == <<commits, commitsHandled, queried>>

fileVars == <<file_changes, commit_changes, rename_history, fileHandled>>

cycleVars == <<detected>>

riskVars == <<risk>>

ownVars == <<owned>>

cacheVars == <<instant, commit_graphs, dependency_graphs, lastCached, got>>

regVars == <<handlers>>

loadVars == <<reader>>

mgrVars == <<manager>>

domVars == <<subjVars, svcVars, healthVars, aggVars, histVars, fileVars, cycleVars, riskVars, ownVars, cacheVars, regVars, loadVars, mgrVars>>

\* everything but subjVars
exceptSubj == <<natsVars, svcVars, healthVars, aggVars, histVars, fileVars, cycleVars, riskVars, ownVars, cacheVars, regVars, loadVars, mgrVars>>

\* everything but svcVars
exceptSvc == <<natsVars, subjVars, healthVars, aggVars, histVars, fileVars, cycleVars, riskVars, ownVars, cacheVars, regVars, loadVars, mgrVars>>

\* everything but healthVars
exceptHealth == <<natsVars, subjVars, svcVars, aggVars, histVars, fileVars, cycleVars, riskVars, ownVars, cacheVars, regVars, loadVars, mgrVars>>

\* everything but aggVars
exceptAgg == <<natsVars, subjVars, svcVars, healthVars, histVars, fileVars, cycleVars, riskVars, ownVars, cacheVars, regVars, loadVars, mgrVars>>

\* everything but histVars
exceptHist == <<natsVars, subjVars, svcVars, healthVars, aggVars, fileVars, cycleVars, riskVars, ownVars, cacheVars, regVars, loadVars, mgrVars>>

\* everything but fileVars
exceptFile == <<natsVars, subjVars, svcVars, healthVars, aggVars, histVars, cycleVars, riskVars, ownVars, cacheVars, regVars, loadVars, mgrVars>>

\* everything but cycleVars
exceptCycle == <<natsVars, subjVars, svcVars, healthVars, aggVars, histVars, fileVars, riskVars, ownVars, cacheVars, regVars, loadVars, mgrVars>>

\* everything but riskVars
exceptRisk == <<natsVars, subjVars, svcVars, healthVars, aggVars, histVars, fileVars, cycleVars, ownVars, cacheVars, regVars, loadVars, mgrVars>>

\* everything but ownVars
exceptOwn == <<natsVars, subjVars, svcVars, healthVars, aggVars, histVars, fileVars, cycleVars, riskVars, cacheVars, regVars, loadVars, mgrVars>>

\* everything but cacheVars
exceptCache == <<natsVars, subjVars, svcVars, healthVars, aggVars, histVars, fileVars, cycleVars, riskVars, ownVars, regVars, loadVars, mgrVars>>

\* everything but regVars
exceptReg == <<natsVars, subjVars, svcVars, healthVars, aggVars, histVars, fileVars, cycleVars, riskVars, ownVars, cacheVars, loadVars, mgrVars>>

\* everything but loadVars
exceptLoad == <<natsVars, subjVars, svcVars, healthVars, aggVars, histVars, fileVars, cycleVars, riskVars, ownVars, cacheVars, regVars, mgrVars>>

\* everything but mgrVars
exceptMgr == <<natsVars, subjVars, svcVars, healthVars, aggVars, histVars, fileVars, cycleVars, riskVars, ownVars, cacheVars, regVars, loadVars>>

vars == <<storeVars, projVars, cmdVars, opsVars, domVars>>

Stores == {"s1", "s2"}

(***************************************************************************)
(* Event stream                                                            *)
(***************************************************************************)
\* the stream stores a message published on one of its subjects and assigns
\* it the next sequence
StreamStore(stream, subject, payload) ==
    IF subject \in EventStreamSubjects
    THEN Append(stream, [subject |-> subject, payload |-> payload])
    ELSE stream

\* stream.info().state.messages
StreamMessages(stream) == Len(stream)

(***************************************************************************)
(* EventStore::append, in its two awaits                                   *)
(***************************************************************************)
\* an event store with no append call under way
IdleAppend ==
    [pc |-> "idle", envelope |-> None, stored_at |-> 0, started_after |-> 0,
     error |-> None]

\* EventPublisher::publish_envelope: the effect on the stream
PublishEnvelope(stream, env) ==
    StreamStore(stream, event_subject(EnvelopeEventType(env)),
                SerializeEnvelope(env))

\* append, first await: publish_envelope. An event type without a subject
\* makes append return InvalidSubject with nothing written.
AppendPublish(s, event_type, agg, ts) ==
    /\ appendState[s].pc = "idle"
    /\ Len(log) < MaxLog
    /\ LET env == NewEnvelope(nextId, now, event_type, agg, ts) IN
       /\ IF event_subject(event_type) = None
          THEN /\ UNCHANGED <<log, appendedFor, nextId>>
               /\ appendState' = [appendState EXCEPT ![s] =
                     [IdleAppend EXCEPT !.error = "InvalidSubject"]]
          ELSE /\ nextId' = nextId + 1
               /\ log' = PublishEnvelope(log, env)
               /\ appendedFor' = [appendedFor EXCEPT ![agg] = Append(@, env)]
               /\ appendState' = [appendState EXCEPT ![s] =
                     [pc |-> "published", envelope |-> env,
                      stored_at |-> Len(log) + 1,
                      started_after |-> Len(completed), error |-> None]]
    /\ UNCHANGED <<completed, loaded, projVars, cmdVars, opsVars, domVars>>

\* the value append returns
AppendResult(stream) == StreamMessages(stream)

\* append, second await: stream.info(), and the return
AppendInfo(s) ==
    /\ appendState[s].pc = "published"
    /\ completed' = Append(completed,
           [store |-> s,
            envelope |-> appendState[s].envelope,
            stored_at |-> appendState[s].stored_at,
            started_after |-> appendState[s].started_after,
            returned |-> AppendResult(log)])
    /\ appendState' = [appendState EXCEPT ![s] = IdleAppend]
    /\ UNCHANGED <<log, nextId, appendedFor, loaded, projVars, cmdVars, opsVars, domVars>>

\* EventPublisher::publish_event: a bare domain event published on the event
\* subjects, which the stream stores like any other message
PublishEvent(event_type, agg, ts) ==
    /\ Len(log) < MaxLog
    /\ event_subject(event_type) # None
    /\ log' = StreamStore(log, event_subject(event_type),
                  SerializeEvent(NewEvent(event_type, agg, ts)))
    /\ UNCHANGED <<nextId, appendState, completed, appendedFor, loaded, projVars, cmdVars, opsVars, domVars>>

(***************************************************************************)
(* EventStore::get_events_after                                            *)
(***************************************************************************)
RECURSIVE EventsFrom(_, _, _)
\* the replay loop: parsed envelopes from stream sequence i on, at most
\* `room` of them; a message that does not parse is passed over
EventsFrom(stream, i, room) ==
    IF i > Len(stream) \/ room = 0 THEN <<>>
    ELSE LET parsed == ParseEnvelope(stream[i].payload) IN
         IF parsed.ok
         THEN <<parsed.envelope>> \o EventsFrom(stream, i + 1, room - 1)
         ELSE EventsFrom(stream, i + 1, room)

\* get_events_after with a consumer that starts one sequence too late
get_events_past(stream, start_sequence, limit) ==
    EventsFrom(stream, start_sequence + 2,
               IF limit = <<>> THEN Len(stream) ELSE limit[1])

\* limit is <<>> (None) or <<n>>
get_events_after(stream, start_sequence, limit) ==
    EventsFrom(stream, start_sequence + 1,
               IF limit = <<>> THEN Len(stream) ELSE limit[1])

(***************************************************************************)
(* EventStore::load_aggregate_events                                       *)
(***************************************************************************)
RECURSIVE LoadFrom(_, _, _)
\* the replay loop: parse each message, keep the envelopes of the aggregate
LoadFrom(stream, i, agg) ==
    IF i > Len(stream) THEN <<>>
    ELSE LET parsed == ParseEnvelope(stream[i].payload) IN
         IF parsed.ok /\ aggregate_id(parsed.envelope) = agg
         THEN <<parsed.envelope>> \o LoadFrom(stream, i + 1, agg)
         ELSE LoadFrom(stream, i + 1, agg)

\* load_aggregate_events without the aggregate check of the replay loop
load_every_aggregate(stream, agg) == EventsFrom(stream, 1, Len(stream))

load_aggregate_events(stream, agg) == LoadFrom(stream, 1, agg)

LoadAggregateEvents(agg) ==
    /\ loaded' = [aggregate |-> agg,
                  events |-> load_aggregate_events(log, agg),
                  appended |-> appendedFor[agg]]
    /\ UNCHANGED <<log, nextId, appendState, completed, appendedFor, projVars, cmdVars, opsVars, domVars>>

(***************************************************************************)
(* The event store specification                                           *)
(***************************************************************************)
InitStore ==
    /\ log = <<>>
    /\ nextId = 1
    /\ appendState = [s \in Stores |-> IdleAppend]
    /\ completed = <<>>
    /\ appendedFor = [a \in Aggregates |-> <<>>]
    /\ loaded = [aggregate |-> None, events |-> <<>>, appended |-> <<>>]


(***************************************************************************)
(* Projections                                                             *)
(***************************************************************************)
\* "stats" is the RepositoryStatsProjection; "custom" stands for any other
\* implementation of the Projection trait, whose apply may return Err
Projs == {"stats", "custom"}

\* the envelopes the projection runs write: <<event type, repository,
\* commit timestamp>>
ProjEnvelopes ==
    { <<"CommitAnalyzed", "R1", 2>>, <<"CommitAnalyzed", "R1", 1>>,
      <<"CommitAnalyzed", "R2", 1>>, <<"BranchDeleted", "R1", 1>>,
      <<"RepositoryCloned", "R1", 1>> }

\* Projection::handles_event_type
handles_event_type(p, event_type) ==
    IF p = "stats"
    THEN event_type \in {"CommitAnalyzed", "BranchCreated", "BranchDeleted",
                         "TagCreated", "FileAnalyzed"}
    ELSE TRUE

\* whether the projection's apply can return Err
ApplyCanFail(p) == p # "stats"

\* RepositoryStats { repository_id, ..Default::default() }
DefaultStats(repo) ==
    [repository_id |-> repo, commit_count |-> 0, branch_count |-> 0,
     tag_count |-> 0, last_commit_time |-> <<>>, total_files_analyzed |-> 0]

\* RepositoryStatsProjection::new: the empty stats map
EmptyStats == [a \in {} |-> DefaultStats(a)]

\* RepositoryStatsProjection::apply; the sequence is not read
StatsApply(st, env, sequence) ==
    LET repo == aggregate_id(env)
        cur  == IF repo \in DOMAIN st THEN st[repo] ELSE DefaultStats(repo)
        t    == EnvelopeEventType(env)
        upd  == CASE t = "CommitAnalyzed" ->
                       [cur EXCEPT !.commit_count = @ + 1,
                                   !.last_commit_time = <<env.event.commit_timestamp>>]
                  [] t = "BranchCreated" ->
                       [cur EXCEPT !.branch_count = @ + 1]
                  [] t = "BranchDeleted" ->
                       [cur EXCEPT !.branch_count = IF @ > 0 THEN @ - 1 ELSE 0]
                  [] t = "TagCreated" ->
                       [cur EXCEPT !.tag_count = @ + 1]
                  [] t = "FileAnalyzed" ->
                       [cur EXCEPT !.total_files_analyzed = @ + 1]
                  [] OTHER -> cur
    IN [a \in DOMAIN st \cup {repo} |-> IF a = repo THEN upd ELSE st[a]]

\* the projection's derived state after apply(env, sequence) returned Ok
ProjectionApply(p, st, env, sequence) ==
    IF p = "stats" THEN StatsApply(st, env, sequence) ELSE st

IdleTask == [pc |-> "none", sequence |-> 0, outcome |-> None]

(***************************************************************************)
(* ProjectionManager::start_projection and process_events                  *)
(***************************************************************************)
\* get_or_create_consumer with a durable name, but making the consumer anew
\* whether or not the stream holds one of that name
create_consumer_anew(existing, floors, name) == 0

\* EventStore::create_durable_consumer: the ack floor of the consumer that
\* get_or_create_consumer yields for the durable name; a consumer the stream
\* already holds is returned as it is, a new one starts before the first
\* message
create_durable_consumer(existing, floors, name) ==
    IF name \in existing THEN floors[name] ELSE 0

\* start_projection: bind the durable consumer, mark running, spawn the task
StartProjection(p) ==
    /\ p \in registered
    /\ task[p].pc = "none"
    /\ running' = [running EXCEPT ![p] = TRUE]
    /\ task' = [task EXCEPT ![p] = [pc |-> "next", sequence |-> 0, outcome |-> None]]
    /\ ackFloor' = [ackFloor EXCEPT ![p] = create_durable_consumer(consumers, ackFloor, p)]
    /\ consumers' = consumers \cup {p}
    /\ UNCHANGED <<registered, position, stats, applyHist, lastApplied,
                   ackedOutcomes, appliedEvents, ackedSeqs, projLock,
                   storeVars, cmdVars, opsVars, domVars>>

\* process_events, one delivery up to the end of the match: the next
\* unacknowledged message is parsed and, under the projections write lock,
\* applied and its position saved
ProcessDelivery(p, apply_ok) ==
    /\ task[p].pc = "next"
    /\ ackFloor[p] < Len(log)
    /\ LET sequence == ackFloor[p] + 1
           parsed   == ParseEnvelope(log[sequence].payload)
       IN
       IF ~parsed.ok
       THEN /\ apply_ok
            /\ task' = [task EXCEPT ![p] =
                   [pc |-> "ack", sequence |-> sequence, outcome |-> "parse_error"]]
            /\ UNCHANGED <<position, stats, applyHist, lastApplied, appliedEvents>>
       ELSE IF ~handles_event_type(p, EnvelopeEventType(parsed.envelope))
       THEN /\ apply_ok
            /\ task' = [task EXCEPT ![p] =
                   [pc |-> "ack", sequence |-> sequence, outcome |-> "not_handled"]]
            /\ UNCHANGED <<position, stats, applyHist, lastApplied, appliedEvents>>
       ELSE /\ apply_ok \/ ApplyCanFail(p)
            /\ applyHist' = [applyHist EXCEPT ![p] = Append(@, sequence)]
            /\ appliedEvents' = [appliedEvents EXCEPT ![p] = Append(@, parsed.envelope)]
            /\ IF apply_ok
               THEN /\ stats' = ProjectionApply(p, stats, parsed.envelope, sequence)
                    /\ position' = [position EXCEPT ![p] = <<sequence>>]
                    /\ lastApplied' = [lastApplied EXCEPT ![p] =
                           <<[envelope |-> parsed.envelope, sequence |-> sequence]>>]
                    /\ task' = [task EXCEPT ![p] =
                           [pc |-> "ack", sequence |-> sequence, outcome |-> "applied"]]
               ELSE /\ task' = [task EXCEPT ![p] =
                           [pc |-> "ack", sequence |-> sequence,
                            outcome |-> "apply_error"]]
                    /\ UNCHANGED <<position, stats, lastApplied>>
    /\ UNCHANGED <<registered, running, ackFloor, ackedOutcomes, ackedSeqs,
                   consumers, projLock, storeVars, cmdVars, opsVars, domVars>>

\* whether process_events acknowledges a delivery with this outcome: the
\* message.ack() call follows the match on every path
AcknowledgesDelivery(outcome) == TRUE

\* process_events, the end of the loop body: message.ack()
ProcessAck(p) ==
    /\ task[p].pc = "ack"
    /\ IF AcknowledgesDelivery(task[p].outcome)
       THEN /\ ackFloor' = [ackFloor EXCEPT ![p] = task[p].sequence]
            /\ ackedOutcomes' = [ackedOutcomes EXCEPT ![p] = @ \cup {task[p].outcome}]
            /\ ackedSeqs' = [ackedSeqs EXCEPT ![p] = Append(@, task[p].sequence)]
       ELSE UNCHANGED <<ackFloor, ackedOutcomes, ackedSeqs>>
    /\ task' = [task EXCEPT ![p] = [pc |-> "next", sequence |-> 0, outcome |-> None]]
    /\ UNCHANGED <<registered, running, position, stats, applyHist, lastApplied,
                   appliedEvents, consumers, projLock, storeVars, cmdVars, opsVars, domVars>>

(***************************************************************************)
(* ProjectionManager::rebuild_projection                                   *)
(***************************************************************************)
\* a reset that leaves the derived state as it is
ProjectionKept(p, st) ==
    st

\* Projection::reset on the derived state: RepositoryStatsProjection clears
\* its stats map
ProjectionReset(p, st) ==
    IF p = "stats" THEN EmptyStats ELSE st

RECURSIVE RebuildFrom(_, _, _, _, _)
\* the replay loop over the envelopes get_events_after(0, None) returned:
\* each handled envelope is applied with sequence idx + 1; fail_at is the
\* index at which apply returns Err (0: nowhere)
RebuildFrom(p, events, i, acc, fail_at) ==
    IF i > Len(events) \/ acc.failed THEN acc
    ELSE IF ~handles_event_type(p, EnvelopeEventType(events[i]))
    THEN RebuildFrom(p, events, i + 1, acc, fail_at)
    ELSE IF fail_at = i
    THEN [acc EXCEPT !.hist = Append(@, i), !.events = Append(@, events[i]),
                     !.failed = TRUE]
    ELSE RebuildFrom(p, events, i + 1,
             [stats  |-> ProjectionApply(p, acc.stats, events[i], i),
              hist   |-> Append(acc.hist, i),
              events |-> Append(acc.events, events[i]),
              last   |-> <<[envelope |-> events[i], sequence |-> i]>>,
              failed |-> FALSE],
             fail_at)

\* rebuild_projection, under the projections write lock from reset to the
\* final save_position
RebuildProjection(p, fail_at) ==
    /\ p \in registered
    /\ LET events == get_events_after(log, 0, <<>>)
           reset_stats == ProjectionReset(p, stats)
           done == RebuildFrom(p, events, 1,
                       [stats |-> reset_stats, hist |-> <<>>, events |-> <<>>,
                        last |-> <<>>, failed |-> FALSE], fail_at)
       IN
       /\ fail_at \in 0..Len(events)
       /\ fail_at # 0 => ApplyCanFail(p) /\ done.failed
       /\ stats' = done.stats
       /\ applyHist' = [applyHist EXCEPT ![p] = done.hist]
       /\ appliedEvents' = [appliedEvents EXCEPT ![p] = done.events]
       /\ lastApplied' = [lastApplied EXCEPT ![p] = done.last]
       /\ position' = [position EXCEPT ![p] =
              IF done.failed \/ events = <<>> THEN <<>> ELSE <<Len(events)>>]
    /\ UNCHANGED <<registered, running, task, ackFloor, ackedOutcomes, ackedSeqs,
                   consumers, projLock, storeVars, cmdVars, opsVars, domVars>>

(***************************************************************************)
(* Writers of the event stream in the projection runs                      *)
(***************************************************************************)
\* an envelope written by EventPublisher::publish_envelope
WriteEnvelope(event_type, agg, ts) ==
    /\ Len(log) < MaxLog
    /\ log' = PublishEnvelope(log, NewEnvelope(nextId, now, event_type, agg, ts))
    /\ nextId' = nextId + 1
    /\ UNCHANGED <<appendState, completed, appendedFor, loaded, projVars, cmdVars, opsVars, domVars>>

(***************************************************************************)
(* Command messages and acknowledgments                                    *)
(***************************************************************************)
\* CommandSubscriber instances, each with its own handler_id
Dispatchers == {"d1", "d2"}

\* the X-Command-ID values of a run
CmdIds == {"c1", "c2"}

\* the command the runs with an acknowledgment waiter publish
WaitCmdIds == {"c1"}

\* X-Command-Type values; "Unknown" is what handle_message takes when the
\* header is absent
CommandTypes == {"CloneRepository", "Unknown"}

\* payload bytes: the JSON of a CloneRepository command, JSON of another
\* shape, bytes that are no JSON
CommandPayloads == {"clone_repository_json", "other_json", "not_json"}

\* the registry after register_handler(TestCommandHandler): command types in
\* registration order
Handlers == <<"CloneRepository">>

\* most handlers registered with one instance
MaxHandlers == 2

\* serde_json::from_slice::<serde_json::Value>(&message.payload)
JsonFromSlice(payload) == payload # "not_json"

\* TypeErasedCommandHandler::handle: serde_json::from_value::<H::Command>
TypedFromValue(command_type, payload) ==
    command_type = "CloneRepository" /\ payload = "clone_repository_json"

\* the loop over handlers.iter(): index of the first handler whose
\* command_type matches, 0 when none does
FindHandler(registry, command_type) ==
    IF \E i \in 1..Len(registry) : registry[i] = command_type
    THEN CHOOSE i \in 1..Len(registry) :
             /\ registry[i] = command_type
             /\ \A j \in 1..(i - 1) : registry[j] # command_type
    ELSE 0

\* CommandAck::new and its serde_json::to_vec
CommandAck(command_id, status, handler_id) ==
    [json |-> "object", command_id |-> command_id, status |-> status,
     handler_id |-> handler_id]

\* serde_json::from_slice::<CommandAck>
ParseAck(payload) ==
    IF /\ payload.json = "object"
       /\ {"command_id", "status", "handler_id"} \subseteq DOMAIN payload
    THEN [ok |-> TRUE,
          ack |-> [command_id |-> payload.command_id, status |-> payload.status,
                   handler_id |-> payload.handler_id]]
    ELSE [ok |-> FALSE]

\* AckPublisher::publish: the message goes out on git.ack.<command_id>
AckPublish(streams, ack) ==
    [streams EXCEPT ![ack.command_id] = Append(@, ack)]

\* subscribe_to_command without Rejected among the terminal statuses
is_terminal_without_rejected(status) == status \in {"Completed", "Failed"}

\* subscribe_to_command: matches!(ack.status, Completed | Failed | Rejected)
is_terminal(status) == status \in {"Completed", "Failed", "Rejected"}

(***************************************************************************)
(* CommandSubscriber::start and handle_message                             *)
(***************************************************************************)
\* start: client.subscribe(git.cmd.>), a plain subscription
DispatcherStart(d) ==
    /\ d \notin started
    /\ started' = started \cup {d}
    /\ UNCHANGED <<cmds, handling, ackStream, waiter, now, storeVars, projVars, opsVars, domVars>>

\* the instances a command message published on git.cmd.> is delivered to:
\* every plain subscription receives every message
Receivers(subscribed) == subscribed

\* a client publishes a command; process_messages of each receiving instance
\* spawns handle_message for it
PublishCommand(c, command_type, payload) ==
    /\ c \notin DOMAIN cmds
    /\ cmds' = [k \in DOMAIN cmds \cup {c} |->
                   IF k = c
                   THEN [command_id |-> c, command_type |-> command_type,
                         payload |-> payload]
                   ELSE cmds[k]]
    /\ handling' = [d \in Dispatchers |->
                       [handling[d] EXCEPT ![c] =
                           IF d \in Receivers(started) THEN "spawned" ELSE "none"]]
    /\ UNCHANGED <<started, ackStream, waiter, now, storeVars, projVars, opsVars, domVars>>

\* handle_message up to tracker.received()
HandleReceived(d, c) ==
    /\ handling[d][c] = "spawned"
    /\ ackStream' = AckPublish(ackStream, CommandAck(c, "Received", d))
    /\ handling' = [handling EXCEPT ![d][c] = "received"]
    /\ UNCHANGED <<started, cmds, waiter, now, storeVars, projVars, opsVars, domVars>>

\* handle_message from the deserialization of the payload to the handler
\* lookup: Rejected on a payload that is no JSON or with no handler found,
\* otherwise tracker.processing()
HandleDispatch(d, c) ==
    /\ handling[d][c] = "received"
    /\ IF ~JsonFromSlice(cmds[c].payload) \/ FindHandler(handlers[d], cmds[c].command_type) = 0
       THEN /\ ackStream' = AckPublish(ackStream, CommandAck(c, "Rejected", d))
            /\ handling' = [handling EXCEPT ![d][c] = "done"]
       ELSE /\ ackStream' = AckPublish(ackStream, CommandAck(c, "Processing", d))
            /\ handling' = [handling EXCEPT ![d][c] = "processing"]
    /\ UNCHANGED <<started, cmds, waiter, now, storeVars, projVars, opsVars, domVars>>

RECURSIVE HandlerLoop(_, _, _, _)
\* a loop that goes on to the handlers after the one it invoked
LoopContinues(registry, i, command_type, status) ==
    HandlerLoop(registry, i + 1, command_type, status)

\* return Ok(()) and return Err(e): handle_message is left from inside the
\* loop after the first handler invoked, whatever its result
LoopReturns(registry, i, command_type, status) ==
    <<>>

\* the statuses the loop over handlers.iter() publishes from handler i on:
\* Processing and the status of the result for a handler whose command_type
\* matches, nothing for the others
HandlerLoop(registry, i, command_type, status) ==
    IF i > Len(registry) THEN <<>>
    ELSE IF registry[i] = command_type
    THEN <<"Processing", status>> \o LoopReturns(registry, i, command_type, status)
    ELSE HandlerLoop(registry, i + 1, command_type, status)

RECURSIVE AckPublishEach(_, _, _, _)
\* the acknowledgments of one instance for one command, published in order
AckPublishEach(streams, c, d, statuses) ==
    IF statuses = <<>> THEN streams
    ELSE AckPublishEach(AckPublish(streams, CommandAck(c, statuses[1], d)),
                        c, d, Tail(statuses))

\* handle_message, handler.handle(command) and the ack of its result: the
\* typed deserialization happens inside handle, and its error is a handler
\* error like any other; the Processing of the handler found is out already
HandleInvoke(d, c, handler_ok) ==
    /\ handling[d][c] = "processing"
    /\ LET typed == TypedFromValue(cmds[c].command_type, cmds[c].payload)
           status == IF typed /\ handler_ok THEN "Completed" ELSE "Failed"
       IN
       /\ ~typed => handler_ok
       /\ ackStream' = AckPublishEach(ackStream, c, d,
                           Tail(HandlerLoop(handlers[d], 1, cmds[c].command_type,
                                            status)))
    /\ handling' = [handling EXCEPT ![d][c] = "done"]
    /\ UNCHANGED <<started, cmds, waiter, now, storeVars, projVars, opsVars, domVars>>

\* CommandSubscriber::register_handler: handlers.write().await is granted
\* when no handle_message of the instance holds the read lock, which it does
\* from the handler lookup to its return
RegisterHandler(d, command_type) ==
    /\ Len(handlers[d]) < MaxHandlers
    /\ \A c \in CmdIds : handling[d][c] # "processing"
    /\ handlers' = [handlers EXCEPT ![d] = Append(@, command_type)]
    /\ UNCHANGED exceptReg

(***************************************************************************)
(* AckSubscriber::subscribe_to_command                                     *)
(***************************************************************************)
IdleWaiter ==
    [pc |-> "idle", command_id |-> None, deadline |-> 0, first |-> 0, seen |-> 0,
     acks |-> <<>>, last_at |-> 0]

\* the subscription and the deadline; messages published before the
\* subscription are not delivered to it
SubscribeToCommand(c, timeout) ==
    /\ waiter.pc = "idle"
    /\ now + timeout <= MaxTime
    /\ waiter' = [pc |-> "waiting", command_id |-> c, deadline |-> now + timeout,
                  first |-> Len(ackStream[c]), seen |-> 0, acks |-> <<>>,
                  last_at |-> now]
    /\ UNCHANGED <<started, cmds, handling, ackStream, now, storeVars, projVars, opsVars, domVars>>

\* one turn of the loop that takes a message before the timeout: a parsed
\* ack is pushed, a terminal one ends the loop
WaitReceive ==
    /\ waiter.pc = "waiting"
    /\ now < waiter.deadline
    /\ waiter.first + waiter.seen < Len(ackStream[waiter.command_id])
    /\ LET message == ackStream[waiter.command_id][waiter.first + waiter.seen + 1]
           parsed  == ParseAck(message)
       IN
       waiter' = [waiter EXCEPT
           !.seen = @ + 1,
           !.last_at = now,
           !.acks = IF parsed.ok THEN Append(@, parsed.ack) ELSE @,
           !.pc = IF parsed.ok /\ is_terminal(parsed.ack.status)
                  THEN "returned" ELSE @]
    /\ UNCHANGED <<started, cmds, handling, ackStream, now, storeVars, projVars, opsVars, domVars>>

\* the loop ends at the deadline: the while condition fails or the timeout
\* around subscription.next() elapses
WaitTimeout ==
    /\ waiter.pc = "waiting"
    /\ now >= waiter.deadline
    /\ waiter' = [waiter EXCEPT !.pc = "returned"]
    /\ UNCHANGED <<started, cmds, handling, ackStream, now, storeVars, projVars, opsVars, domVars>>

\* the wall clock advances
Tick ==
    /\ now < MaxTime
    /\ now' = now + 1
    /\ UNCHANGED <<started, cmds, handling, ackStream, waiter, storeVars, projVars, opsVars, domVars>>

(***************************************************************************)
(* Specifications                                                          *)
(***************************************************************************)
InitProj ==
    /\ running = [p \in Projs |-> FALSE]
    /\ task = [p \in Projs |-> IdleTask]
    /\ ackFloor = [p \in Projs |-> 0]
    /\ position = [p \in Projs |-> <<>>]
    /\ stats = EmptyStats
    /\ applyHist = [p \in Projs |-> <<>>]
    /\ lastApplied = [p \in Projs |-> <<>>]
    /\ ackedOutcomes = [p \in Projs |-> {}]
    /\ appliedEvents = [p \in Projs |-> <<>>]
    /\ ackedSeqs = [p \in Projs |-> <<>>]
    /\ consumers = {}
    /\ projLock = None

InitCmd ==
    /\ started = {}
    /\ cmds = [k \in {} |-> 0]
    /\ handling = [d \in Dispatchers |-> [c \in CmdIds |-> "none"]]
    /\ ackStream = [c \in CmdIds |-> <<>>]
    /\ waiter = IdleWaiter
    /\ now = 0

\* the long-lived tasks of a service: the command subscriber loop, a
\* projection loop, the heartbeat ticker and the health endpoint
Loops == {"subscriber", "projection", "heartbeat", "health_endpoint"}

\* Repository::new
RepositoryNew ==
    [remote_url |-> <<>>, local_path |-> <<>>, branches |-> {},
     commit_count |-> <<>>, updated_at |-> 0, version |-> 0]

\* the file paths and the commit hashes of the file-change runs
FilePaths == {"src/a.rs", "src/b.rs"}
CommitHashes == {"abc123d", "def456a"}

InitDom ==
    /\ mapped = [names |-> <<>>, subjects |-> <<>>]
    /\ drained = FALSE
    /\ loops = [l \in Loops |-> "running"]
    /\ served = [l \in Loops |-> 0]
    /\ beats = 0
    /\ checks = [n \in {} |-> "healthy"]
    /\ health = [order |-> <<>>, status |-> "healthy", checks |-> [n \in {} |-> "healthy"],
                 called |-> FALSE]
    /\ repository = RepositoryNew
    /\ applied = 0
    /\ commits = [r \in Aggregates |-> <<>>]
    /\ commitsHandled = [r \in Aggregates |-> {}]
    /\ queried = [repository_id |-> "R1", limit |-> <<>>, history |-> <<>>,
                  result |-> <<>>, called |-> FALSE]
    /\ file_changes = [p \in FilePaths |-> <<>>]
    /\ commit_changes = [h \in {} |-> <<>>]
    /\ rename_history = [p \in FilePaths |-> <<>>]
    /\ fileHandled = 0
    /\ detected = [graph |-> [f \in {} |-> <<>>], order |-> <<>>, cycles |-> <<>>,
                   called |-> FALSE]
    /\ risk = [churn_rates |-> <<0, 0>>, complexity |-> <<>>, lines_of_code |-> 0,
               levels |-> <<"Low", "Low">>, called |-> FALSE]
    /\ owned = [file_commits |-> <<>>, file_order |-> <<>>, author_orders |-> <<>>,
                events |-> <<>>, called |-> FALSE]
    /\ instant = 0
    /\ commit_graphs = <<>>
    /\ dependency_graphs = <<>>
    /\ lastCached = <<>>
    /\ got = [cache |-> None, key |-> <<>>, at |-> 0, held |-> FALSE,
             cached |-> <<>>, result |-> <<>>]
    /\ reader = [pc |-> "idle", call |-> None, arg |-> 0, limit |-> <<>>, cursor |-> 0,
                 events |-> <<>>]
    /\ manager = [readers |-> {}, status |-> "idle", start_all |-> "idle", rebuild |-> "idle",
                  reported |-> <<>>]

\* every instance has run register_handler(TestCommandHandler)
InitRegistered ==
    handlers = [d \in Dispatchers |-> Handlers]

InitOps ==
    /\ batch = [input |-> <<>>, written |-> <<>>, result |-> [ok |-> TRUE, sequences |-> <<>>]]
    /\ fetched = [start_sequence |-> 0, limit |-> <<>>, events |-> <<>>,
                  upto |-> 0, called |-> FALSE]
    /\ corrFloor = 0
    /\ corrLoaded = [correlation_id |-> 0, events |-> <<>>, upto |-> 0,
                     before |-> <<>>, called |-> FALSE]
    /\ created = <<>>

\* the event store, with no projection registered
Init ==
    /\ InitStore
    /\ InitProj
    /\ InitCmd
    /\ InitOps
    /\ InitDom
    /\ InitRegistered
    /\ registered = {}

Next ==
    \/ \E s \in Stores, e \in StoreEnvelopes : AppendPublish(s, e[1], e[2], e[3])
    \/ \E s \in Stores : AppendInfo(s)
    \/ PublishEvent("CommitAnalyzed", "R1", 1)
    \/ \E a \in Aggregates : LoadAggregateEvents(a)

Spec == Init /\ [][Next]_vars

\* the projection manager after setup: one projection registered
ProjInit ==
    /\ InitStore
    /\ InitProj
    /\ InitCmd
    /\ InitOps
    /\ InitDom
    /\ InitRegistered
    /\ registered \in {{p} : p \in Projs}

ProjNext ==
    \/ \E e \in ProjEnvelopes : WriteEnvelope(e[1], e[2], e[3])
    \/ PublishEvent("CommitAnalyzed", "R1", 1)
    \/ \E p \in Projs : StartProjection(p)
    \/ \E p \in Projs, ok \in BOOLEAN : ProcessDelivery(p, ok)
    \/ \E p \in Projs : ProcessAck(p)
    \/ \E p \in Projs, k \in 0..MaxLog : RebuildProjection(p, k)

ProjSpec == ProjInit /\ [][ProjNext]_vars

\* command subscribers and the acknowledgments they publish
CmdInit == Init

CmdNext ==
    \/ \E d \in Dispatchers : DispatcherStart(d)
    \/ \E c \in CmdIds, t \in CommandTypes, b \in CommandPayloads :
           PublishCommand(c, t, b)
    \/ \E d \in Dispatchers, c \in CmdIds : HandleReceived(d, c)
    \/ \E d \in Dispatchers, c \in CmdIds : HandleDispatch(d, c)
    \/ \E d \in Dispatchers, c \in CmdIds, ok \in BOOLEAN : HandleInvoke(d, c, ok)

CmdSpec == CmdInit /\ [][CmdNext]_vars

\* one command, its acknowledgments, and a subscribe_to_command call on
\* either command id; the task runtime schedules the waiter and time passes
WaitStep == WaitReceive \/ WaitTimeout

AckWaitNext ==
    \/ \E d \in Dispatchers : DispatcherStart(d)
    \/ \E c \in WaitCmdIds, t \in CommandTypes, b \in CommandPayloads :
           PublishCommand(c, t, b)
    \/ \E d \in Dispatchers, c \in CmdIds : HandleReceived(d, c)
    \/ \E d \in Dispatchers, c \in CmdIds : HandleDispatch(d, c)
    \/ \E d \in Dispatchers, c \in CmdIds, ok \in BOOLEAN : HandleInvoke(d, c, ok)
    \/ \E c \in CmdIds, t \in 1..MaxTime : SubscribeToCommand(c, t)
    \/ WaitReceive
    \/ WaitTimeout
    \/ Tick

AckWaitSpec ==
    CmdInit /\ [][AckWaitNext]_vars /\ WF_vars(WaitStep) /\ WF_vars(Tick)

(***************************************************************************)
(* Claims about the event store (checked under Spec)                       *)
(***************************************************************************)
\* whether append call i had returned when append call j started
ReturnedBefore(i, j) == i <= completed[j].started_after

\* C2: every append that returned gave a positive sequence number, the one
\* the log assigned to its envelope, and an append started after another
\* returned gives a strictly greater number than that one gave
C2_AppendReturnsAssignedSequence ==
    \A j \in 1..Len(completed) :
        /\ completed[j].returned > 0
        /\ completed[j].returned = completed[j].stored_at
        /\ \A i \in 1..Len(completed) :
               ReturnedBefore(i, j) =>
                   completed[i].returned < completed[j].returned

C1_ApplyErrorNotAcknowledged ==
    \A p \in Projs : "apply_error" \notin ackedOutcomes[p]

\* C4: for one projection, the sequences passed to apply since the last
\* reset are strictly increasing, live processing and rebuild taken together
C4_ApplySequencesIncrease ==
    \A p \in Projs :
        \A i, j \in 1..Len(applyHist[p]) :
            i < j => applyHist[p][i] < applyHist[p][j]

\* the CommitAnalyzed envelopes of a repository in the log
CommitsInLog(repo) ==
    { i \in 1..Len(log) :
        LET parsed == ParseEnvelope(log[i].payload) IN
        /\ parsed.ok
        /\ EnvelopeEventType(parsed.envelope) = "CommitAnalyzed"
        /\ aggregate_id(parsed.envelope) = repo }

\* C5: with the repository-stats projection running, each appended
\* CommitAnalyzed event is counted once: commit_count never exceeds the
\* number appended for the repository, the value it has to settle at
C5_CommitsCountedOnce ==
    running["stats"] =>
        \A repo \in DOMAIN stats :
            stats[repo].commit_count <= Cardinality(CommitsInLog(repo))

\* the highest sequence apply was called with since the last reset
HighestSeen(p) ==
    CHOOSE n \in {applyHist[p][i] : i \in 1..Len(applyHist[p])} :
        \A i \in 1..Len(applyHist[p]) : applyHist[p][i] <= n

\* C10: after reset(); apply(E1,1); ...; apply(En,n), applying En at the
\* highest-seen sequence n a second time leaves the state as it is
C10_ReapplyHighestKeepsState ==
    \A p \in Projs :
        (/\ lastApplied[p] # <<>>
         /\ lastApplied[p][1].sequence = HighestSeen(p))
        => ProjectionApply(p, stats, lastApplied[p][1].envelope,
                           lastApplied[p][1].sequence) = stats

(***************************************************************************)
(* Claims about commands and acknowledgments                               *)
(***************************************************************************)
\* Received, then Processing, then the terminal statuses
AckRank(status) ==
    CASE status = "Received" -> 1
      [] status = "Processing" -> 2
      [] OTHER -> 3

\* C6: on git.ack.<command_id> the statuses come in the order Received,
\* Processing, then Completed, Failed or Rejected; after a terminal status
\* no Received or Processing is published for the command
C6_AckOrder ==
    \A c \in CmdIds :
        \A i, j \in 1..Len(ackStream[c]) :
            i < j => AckRank(ackStream[c][i].status) <= AckRank(ackStream[c][j].status)

\* C7: with several instances subscribed to the command wildcard, a
\* published command is handled by one of them only
C7_OneInstanceHandles ==
    \A c \in DOMAIN cmds :
        Cardinality({d \in Dispatchers : handling[d][c] # "none"}) <= 1

\* the payload of the command message cannot be deserialized: it is no
\* JSON, or it is not the JSON of the command type of the handler found
Undeserializable(message) ==
    \/ ~JsonFromSlice(message.payload)
    \/ /\ FindHandler(Handlers, message.command_type) # 0
       /\ ~TypedFromValue(message.command_type, message.payload)

\* the statuses instance d published for command c
PublishedBy(d, c) ==
    { ackStream[c][i].status :
        i \in { k \in 1..Len(ackStream[c]) : ackStream[c][k].handler_id = d } }

\* C9: for a command whose payload cannot be deserialized an instance
\* publishes Rejected and stops: it publishes no Processing, Completed or
\* Failed for it
C9_UndeserializableRejected ==
    \A c \in DOMAIN cmds, d \in Dispatchers :
        Undeserializable(cmds[c]) =>
            /\ PublishedBy(d, c) \cap {"Processing", "Completed", "Failed"} = {}
            /\ handling[d][c] = "done" => "Rejected" \in PublishedBy(d, c)

\* the messages the waiter's subscription has delivered to it, in order
Observed ==
    SubSeq(ackStream[waiter.command_id], waiter.first + 1,
           waiter.first + waiter.seen)

\* the call returns what it observed, in order, a terminal ack ends it at
\* once, and nothing is taken at or after the deadline
AckWaitSafe ==
    waiter.pc # "idle" =>
        /\ Len(waiter.acks) = Len(Observed)
        /\ \A i \in 1..Len(waiter.acks) :
              /\ waiter.acks[i].status = Observed[i].status
              /\ waiter.acks[i].handler_id = Observed[i].handler_id
              /\ waiter.acks[i].command_id = waiter.command_id
              /\ waiter.acks[i].status \in {"Completed", "Failed", "Rejected"} =>
                    i = Len(waiter.acks) /\ waiter.pc = "returned"
        /\ waiter.seen > 0 => waiter.last_at < waiter.deadline
        /\ waiter.pc = "returned" =>
              \/ now >= waiter.deadline
              \/ /\ waiter.acks # <<>>
                 /\ waiter.acks[Len(waiter.acks)].status \in
                        {"Completed", "Failed", "Rejected"}

\* C8: subscribe_to_command always returns, on the first terminal ack
\* observed or else at the deadline, with the acks observed so far in the
\* order observed and a terminal ack, if any, last
C8_AckWaitReturns ==
    /\ []AckWaitSafe
    /\ (waiter.pc = "waiting") ~> (waiter.pc = "returned")

\* C8 witness: a call that returned before its deadline, on a Rejected ack
\* that followed a Received ack
C8_Witness ==
    /\ waiter.pc = "returned"
    /\ now < waiter.deadline
    /\ Len(waiter.acks) = 2
    /\ waiter.acks[1].status = "Received"
    /\ waiter.acks[2].status = "Rejected"

(***************************************************************************)
(* Further claims about the projection manager (checked under ProjSpec)    *)
(***************************************************************************)
\* the commit timestamps of the CommitAnalyzed envelopes of a repository
\* applied to the repository-stats projection since its last reset
AppliedCommitTimes(repo) ==
    { appliedEvents["stats"][i].event.commit_timestamp :
        i \in { k \in 1..Len(appliedEvents["stats"]) :
                  /\ EnvelopeEventType(appliedEvents["stats"][k]) = "CommitAnalyzed"
                  /\ aggregate_id(appliedEvents["stats"][k]) = repo } }

\* the greatest element of a non-empty set of numbers
Maximum(S) == CHOOSE t \in S : \A u \in S : u <= t

\* C11: after CommitAnalyzed events of a repository were applied to the
\* repository-stats projection, last_commit_time is the maximum of their
\* commit timestamps, whatever the order they were applied in
C11_LastCommitTimeIsMax ==
    \A repo \in Aggregates :
        AppliedCommitTimes(repo) # {} =>
            /\ repo \in DOMAIN stats
            /\ stats[repo].last_commit_time = <<Maximum(AppliedCommitTimes(repo))>>

\* the sequences in a non-empty history of apply calls
SequencesOf(hist) == { hist[i] : i \in 1..Len(hist) }

\* C12: a rebuild that completes successfully on a non-empty log leaves the
\* saved position at the highest sequence it applied
C12_RebuildSavesHighestApplied ==
    [][\A p \in Projs :
          (RebuildProjection(p, 0) /\ log # <<>> /\ applyHist'[p] # <<>>) =>
              position'[p] = <<Maximum(SequencesOf(applyHist'[p]))>>]_vars

\* C13: a saved position never decreases in a step other than a rebuild of
\* the projection; live processing never moves it to a smaller value
C13_PositionNeverDecreases ==
    [][\A p \in Projs :
          (position[p] # <<>> /\ ~(\E k \in 0..MaxLog : RebuildProjection(p, k))) =>
              /\ position'[p] # <<>>
              /\ position'[p][1] >= position[p][1]]_vars

(***************************************************************************)
(* process_events with the write lock of the projections map: the lock is  *)
(* taken before apply is awaited and dropped when the Ok arm of the match  *)
(* ends                                                                    *)
(***************************************************************************)
\* the envelopes written in the runs with the lock
LockEnvelopes == { <<"CommitAnalyzed", "R1", 1>>, <<"RepositoryCloned", "R1", 1>> }

\* process_events from the delivery to projections.write().await: a payload
\* that is no envelope goes to the ack; with an envelope the task waits for
\* the write lock and takes it once no guard of the map is held
DeliveryLock(p) ==
    /\ task[p].pc = "next"
    /\ ackFloor[p] < Len(log)
    /\ LET sequence == ackFloor[p] + 1
           parsed   == ParseEnvelope(log[sequence].payload)
       IN
       IF ~parsed.ok
       THEN /\ task' = [task EXCEPT ![p] =
                   [pc |-> "ack", sequence |-> sequence, outcome |-> "parse_error"]]
            /\ UNCHANGED projLock
       ELSE /\ projLock = None
            /\ manager.readers = {}
            /\ projLock' = p
            /\ task' = [task EXCEPT ![p] =
                   [pc |-> "apply", sequence |-> sequence, outcome |-> None]]
    /\ UNCHANGED <<registered, running, ackFloor, position, stats, applyHist,
                   lastApplied, ackedOutcomes, appliedEvents, ackedSeqs, consumers,
                   storeVars, cmdVars, opsVars, domVars>>

\* process_events under the lock: handles_event_type, apply awaited to its
\* Ok or Err, save_position, and the guard dropped
DeliveryApply(p, apply_ok) ==
    /\ task[p].pc = "apply"
    /\ projLock = p
    /\ LET sequence == task[p].sequence
           envelope == ParseEnvelope(log[sequence].payload).envelope
       IN
       IF ~handles_event_type(p, EnvelopeEventType(envelope))
       THEN /\ apply_ok
            /\ task' = [task EXCEPT ![p] =
                   [pc |-> "ack", sequence |-> sequence, outcome |-> "not_handled"]]
            /\ UNCHANGED <<position, stats, applyHist, lastApplied, appliedEvents>>
       ELSE /\ apply_ok \/ ApplyCanFail(p)
            /\ applyHist' = [applyHist EXCEPT ![p] = Append(@, sequence)]
            /\ appliedEvents' = [appliedEvents EXCEPT ![p] = Append(@, envelope)]
            /\ IF apply_ok
               THEN /\ stats' = ProjectionApply(p, stats, envelope, sequence)
                    /\ position' = [position EXCEPT ![p] = <<sequence>>]
                    /\ lastApplied' = [lastApplied EXCEPT ![p] =
                           <<[envelope |-> envelope, sequence |-> sequence]>>]
                    /\ task' = [task EXCEPT ![p] =
                           [pc |-> "ack", sequence |-> sequence, outcome |-> "applied"]]
               ELSE /\ task' = [task EXCEPT ![p] =
                           [pc |-> "ack", sequence |-> sequence,
                            outcome |-> "apply_error"]]
                    /\ UNCHANGED <<position, stats, lastApplied>>
    /\ projLock' = None
    /\ UNCHANGED <<registered, running, ackFloor, ackedOutcomes, ackedSeqs,
                   consumers, storeVars, cmdVars, opsVars, domVars>>

\* the projection manager after setup with every projection registered
LockInit ==
    /\ InitStore
    /\ InitProj
    /\ InitCmd
    /\ InitOps
    /\ InitDom
    /\ InitRegistered
    /\ registered = Projs

LockNext ==
    \/ \E e \in LockEnvelopes : WriteEnvelope(e[1], e[2], e[3])
    \/ \E p \in Projs : StartProjection(p)
    \/ \E p \in Projs : DeliveryLock(p)
    \/ \E p \in Projs, ok \in BOOLEAN : DeliveryApply(p, ok)
    \/ \E p \in Projs : ProcessAck(p)

\* the task runtime runs every task that can run and the lock is granted in
\* turn; the apply of the repository-stats projection always returns, the
\* apply of another Projection implementor may never return
LockSpec ==
    /\ LockInit
    /\ [][LockNext]_vars
    /\ \A p \in Projs : WF_vars(StartProjection(p))
    /\ \A p \in Projs : SF_vars(DeliveryLock(p))
    /\ \A p \in Projs : WF_vars(ProcessAck(p))
    /\ WF_vars(DeliveryApply("stats", TRUE))

\* C14: while another projection's apply fails or does not complete, a
\* delivery pending for the repository-stats projection is still handled
C14_OtherProjectionsContinue ==
    (task["stats"].pc = "next" /\ ackFloor["stats"] < Len(log))
        ~> (task["stats"].pc = "ack")

\* C15: no process_events task is suspended in apply while it holds the
\* write lock of the projections map
C15_NoLockAcrossAwait ==
    \A p \in Projs : task[p].pc = "apply" => projLock # p

(***************************************************************************)
(* EventStore::append_batch                                                *)
(***************************************************************************)
\* the envelope slices given to append_batch: <<event type, repository,
\* commit timestamp>> each
BatchInputs == UNION { [1..n -> StoreEnvelopes] : n \in 1..MaxBatch }

RECURSIVE BatchFrom(_, _, _, _)
\* the loop of append_batch from envelope i on: each append publishes and
\* pushes the sequence it returned; the ? on a failed append returns the
\* error, and the vector of sequences is dropped with the frame. `written`
\* keeps what the appends before the failure returned.
BatchFrom(stream, envelopes, i, sequences) ==
    IF i > Len(envelopes)
    THEN [stream |-> stream, written |-> sequences,
          result |-> [ok |-> TRUE, sequences |-> sequences]]
    ELSE IF event_subject(EnvelopeEventType(envelopes[i])) = None
    THEN [stream |-> stream, written |-> sequences,
          result |-> [ok |-> FALSE, error |-> "InvalidSubject"]]
    ELSE LET stored == PublishEnvelope(stream, envelopes[i]) IN
         BatchFrom(stored, envelopes, i + 1,
                   Append(sequences, AppendResult(stored)))

\* append_batch(envelopes)
append_batch(stream, envelopes) == BatchFrom(stream, envelopes, 1, <<>>)

\* a call of append_batch with envelopes made by EventEnvelope::new; the
\* ids of envelopes that were not written are not used up
AppendBatch(input) ==
    /\ Len(log) + Len(input) <= MaxLog
    /\ LET envelopes == [i \in 1..Len(input) |->
                            NewEnvelope(nextId + i - 1, now, input[i][1],
                                        input[i][2], input[i][3])]
           done == append_batch(log, envelopes)
       IN
       /\ log' = done.stream
       /\ nextId' = nextId + Len(done.written)
       /\ batch' = [input |-> envelopes, written |-> done.written,
                    result |-> done.result]
    /\ UNCHANGED <<appendState, completed, appendedFor, loaded, fetched,
                   corrFloor, corrLoaded, created, projVars, cmdVars, domVars>>

BatchNext ==
    \/ \E input \in BatchInputs : AppendBatch(input)
    \/ PublishEvent("CommitAnalyzed", "R1", 1)

\* one event store appending batches, and a publisher of bare events
BatchSpec == Init /\ [][BatchNext]_vars

\* the sequence numbers a caller of append_batch has in hand from its result
SequencesGiven(result) == IF result.ok THEN result.sequences ELSE <<>>

\* C16: when append_batch fails at its k-th envelope, the caller is given
\* the sequence numbers of the k-1 envelopes written before it
C16_PartialBatchSequencesGiven ==
    (batch.input # <<>> /\ ~batch.result.ok) =>
        SequencesGiven(batch.result) = batch.written

(***************************************************************************)
(* Durable consumers across restarts of the projection host                *)
(***************************************************************************)
\* the process hosting the projection stops and is set up again: the task is
\* gone and the projection is a new, empty object; the stream keeps its
\* consumers and their ack floors
Restart(p) ==
    /\ p \in registered
    /\ task[p].pc # "none"
    /\ task' = [task EXCEPT ![p] = IdleTask]
    /\ running' = [running EXCEPT ![p] = FALSE]
    /\ position' = [position EXCEPT ![p] = <<>>]
    /\ stats' = IF p = "stats" THEN EmptyStats ELSE stats
    /\ applyHist' = [applyHist EXCEPT ![p] = <<>>]
    /\ appliedEvents' = [appliedEvents EXCEPT ![p] = <<>>]
    /\ lastApplied' = [lastApplied EXCEPT ![p] = <<>>]
    /\ UNCHANGED <<registered, ackFloor, ackedOutcomes, ackedSeqs, consumers,
                   projLock, storeVars, cmdVars, opsVars, domVars>>

DurableNext ==
    \/ \E e \in ProjEnvelopes : WriteEnvelope(e[1], e[2], e[3])
    \/ PublishEvent("CommitAnalyzed", "R1", 1)
    \/ \E p \in Projs : StartProjection(p)
    \/ \E p \in Projs, ok \in BOOLEAN : ProcessDelivery(p, ok)
    \/ \E p \in Projs : ProcessAck(p)
    \/ \E p \in Projs : Restart(p)

\* live processing with restarts of the host
DurableSpec == ProjInit /\ [][DurableNext]_vars

\* C17: create_durable_consumer with a name used before yields the consumer
\* the stream holds, at its persisted position: over starts and restarts
\* every delivery is the one after the last acknowledged, so the sequences
\* acknowledged are 1, 2, 3, ... with none twice and none passed over
C17_DurableConsumerResumes ==
    \A p \in Projs :
        /\ ackedSeqs[p] = [i \in 1..Len(ackedSeqs[p]) |-> i]
        /\ ackFloor[p] = Len(ackedSeqs[p])
        /\ task[p].pc = "ack" => task[p].sequence = Len(ackedSeqs[p]) + 1

\* C17 witness: two CommitAnalyzed envelopes of R1; the first was
\* acknowledged, the host restarted, and the consumer created again under the
\* same name has delivered the second, which alone is counted in the new
\* projection
C17_Witness ==
    /\ "stats" \in consumers
    /\ ackedSeqs["stats"] = <<1>>
    /\ task["stats"].pc = "ack"
    /\ task["stats"].sequence = 2
    /\ 1 \in CommitsInLog("R1")
    /\ 2 \in CommitsInLog("R1")
    /\ stats["R1"].commit_count = 1

(***************************************************************************)
(* Correlation chains: EventMetadata::from_correlation and                 *)
(* EventStore::load_by_correlation                                         *)
(***************************************************************************)
\* from_correlation with its two arguments taken in the other order
from_correlation_swapped(id, at, correlation_id, causation_id) ==
    [event_id |-> id, correlation_id |-> causation_id,
     causation_id |-> correlation_id, occurred_at |-> at]

\* EventMetadata::from_correlation; id is the fresh Uuid::new_v4(), at is
\* Utc::now()
from_correlation(id, at, correlation_id, causation_id) ==
    [event_id |-> id, correlation_id |-> correlation_id,
     causation_id |-> causation_id, occurred_at |-> at]

\* EventEnvelope::from_correlation
EnvelopeFromCorrelation(id, at, event, correlation_id, causation_id) ==
    [metadata |-> from_correlation(id, at, correlation_id, causation_id),
     event    |-> event]

\* the X-Correlation-ID header of a stored message: publish_envelope sets it
\* to the envelope's correlation id, publish_event to a Uuid made for the
\* header alone, which no caller holds
CorrelationHeader(message) ==
    IF "metadata" \in DOMAIN message.payload
    THEN message.payload.metadata.correlation_id
    ELSE 0

RECURSIVE InsertByOccurredAt(_, _)
\* one step of the stable sort: e goes after every element not later than it
InsertByOccurredAt(sorted, e) ==
    IF sorted = <<>> THEN <<e>>
    ELSE IF sorted[Len(sorted)].metadata.occurred_at <= e.metadata.occurred_at
    THEN Append(sorted, e)
    ELSE Append(InsertByOccurredAt(SubSeq(sorted, 1, Len(sorted) - 1), e),
                sorted[Len(sorted)])

RECURSIVE SortByOccurredAt(_)
\* events.sort_by_key(|e| e.occurred_at()), a stable sort
SortByOccurredAt(events) ==
    IF events = <<>> THEN <<>>
    ELSE InsertByOccurredAt(SortByOccurredAt(SubSeq(events, 1, Len(events) - 1)),
                            events[Len(events)])

RECURSIVE CorrelatedFrom(_, _, _)
\* the scan: a message whose X-Correlation-ID header is the id asked for and
\* whose payload parses as an envelope is kept
CorrelatedFrom(stream, i, correlation_id) ==
    IF i > Len(stream) THEN <<>>
    ELSE LET parsed == ParseEnvelope(stream[i].payload) IN
         IF CorrelationHeader(stream[i]) = correlation_id /\ parsed.ok
         THEN <<parsed.envelope>> \o CorrelatedFrom(stream, i + 1, correlation_id)
         ELSE CorrelatedFrom(stream, i + 1, correlation_id)

\* the consumer of a call that took up where the consumer of the call before
\* it had acknowledged
CorrelationLoaderResumed(floor) == floor

\* the stream sequence before the first delivery of the consumer a call of
\* load_by_correlation gets: the Config given to get_or_create_consumer has
\* no durable name, the stream holds no consumer named correlation_loader,
\* and the consumer made delivers from the start of the stream
CorrelationLoaderFloor(floor) == 0

\* EventStore::load_by_correlation
load_by_correlation(stream, floor, correlation_id) ==
    SortByOccurredAt(
        CorrelatedFrom(stream, CorrelationLoaderFloor(floor) + 1, correlation_id))

\* a call of load_by_correlation; every message scanned is acknowledged.
\* `before` keeps what the call before this one was given and how many
\* envelopes it returned.
LoadByCorrelation(correlation_id) ==
    /\ corrLoaded' = [correlation_id |-> correlation_id,
                      events |-> load_by_correlation(log, corrFloor, correlation_id),
                      upto |-> Len(log),
                      before |-> IF corrLoaded.called
                                 THEN <<[correlation_id |-> corrLoaded.correlation_id,
                                         returned |-> Len(corrLoaded.events),
                                         upto |-> corrLoaded.upto]>>
                                 ELSE <<>>,
                      called |-> TRUE]
    /\ corrFloor' = Len(log)
    /\ UNCHANGED <<batch, fetched, created, storeVars, projVars, cmdVars, domVars>>

\* the events of the correlation runs
CorrEvents == { NewEvent("RepositoryCloned", "R1", 1), NewEvent("BranchCreated", "R1", 1) }

\* a root envelope, made by EventEnvelope::new at time at and appended now
AppendRoot(event, at) ==
    /\ Len(log) < MaxLog
    /\ at \in 0..now
    /\ log' = PublishEnvelope(log,
                  NewEnvelope(nextId, at, event.event_type, event.repository_id,
                              event.commit_timestamp))
    /\ nextId' = nextId + 1
    /\ UNCHANGED <<appendState, completed, appendedFor, loaded, opsVars,
                   projVars, cmdVars, domVars>>

\* an envelope made by EventEnvelope::from_correlation at time at, from ids
\* the caller holds, and appended now
AppendCorrelated(event, correlation_id, causation_id, at) ==
    /\ Len(log) < MaxLog
    /\ at \in 0..now
    /\ correlation_id \in 1..(nextId - 1)
    /\ causation_id \in 1..(nextId - 1)
    /\ LET env == EnvelopeFromCorrelation(nextId, at, event, correlation_id,
                                          causation_id)
       IN
       /\ log' = PublishEnvelope(log, env)
       /\ created' = Append(created,
              [correlation_id |-> correlation_id, causation_id |-> causation_id,
               envelope |-> env])
    /\ nextId' = nextId + 1
    /\ UNCHANGED <<appendState, completed, appendedFor, loaded, batch, fetched,
                   corrFloor, corrLoaded, projVars, cmdVars, domVars>>

CorrNext ==
    \/ \E event \in CorrEvents, at \in 0..MaxTime : AppendRoot(event, at)
    \/ \E event \in CorrEvents, c, k \in 1..MaxLog, at \in 0..MaxTime :
           AppendCorrelated(event, c, k, at)
    \/ PublishEvent("CommitAnalyzed", "R1", 1)
    \/ \E c \in 1..MaxLog : LoadByCorrelation(c)
    \/ Tick

\* envelopes in correlation chains, appended and loaded by correlation
CorrSpec == Init /\ [][CorrNext]_vars

\* the log positions, up to the length the log had at the call, of the
\* envelopes whose correlation id is c
CorrelatedInLog(c, upto) ==
    { i \in 1..upto :
        /\ ParseEnvelope(log[i].payload).ok
        /\ ParseEnvelope(log[i].payload).envelope.metadata.correlation_id = c }

C20_FromCorrelationIds ==
    \A i \in 1..Len(created) :
        LET metadata == created[i].envelope.metadata IN
        /\ metadata.correlation_id = created[i].correlation_id
        /\ metadata.causation_id = created[i].causation_id
        /\ metadata.event_id # created[i].correlation_id
        /\ metadata.event_id # created[i].causation_id

\* C20 witness: an envelope was made from a correlation id and a causation
\* id that differ
C20_Witness ==
    \E i \in 1..Len(created) :
        /\ created[i].correlation_id # created[i].causation_id
        /\ created[i].envelope.metadata.correlation_id = created[i].correlation_id

(***************************************************************************)
(* Replay after a sequence: EventStore::get_events_after                   *)
(***************************************************************************)
\* the limits a caller passes: None, or Some(n)
Limits == {<<>>} \cup { <<n>> : n \in 0..MaxLog }

\* a call of get_events_after
GetEventsAfter(start_sequence, limit) ==
    /\ fetched' = [start_sequence |-> start_sequence, limit |-> limit,
                   events |-> get_events_after(log, start_sequence, limit),
                   upto |-> Len(log), called |-> TRUE]
    /\ UNCHANGED <<batch, corrFloor, corrLoaded, created, storeVars, projVars,
                   cmdVars, domVars>>

\* the envelopes of the replay runs: those publish_envelope has a subject for
ReplayEnvelopes == { e \in StoreEnvelopes : event_subject(e[1]) # None }

ReplayNext ==
    \/ \E e \in ReplayEnvelopes : WriteEnvelope(e[1], e[2], e[3])
    \/ PublishEvent("CommitAnalyzed", "R1", 1)
    \/ \E s \in 0..MaxLog, limit \in Limits : GetEventsAfter(s, limit)

\* a log of envelopes and bare events, replayed from any sequence
ReplaySpec == Init /\ [][ReplayNext]_vars

\* the sequences after s, up to the length the log had at the call, that
\* hold an envelope
EnvelopesAfter(s, upto) ==
    { i \in (s + 1)..upto : ParseEnvelope(log[i].payload).ok }

RootEnvelopes ==
    { ParseEnvelope(log[i].payload).envelope :
        i \in { k \in 1..Len(log) :
                  /\ ParseEnvelope(log[k].payload).ok
                  /\ \A c \in 1..Len(created) :
                         created[c].envelope # ParseEnvelope(log[k].payload).envelope } }

\* C21: every root envelope (created without a parent) has
\* correlation_id = causation_id = event_id
C21_RootEnvelopeIds ==
    \A env \in RootEnvelopes :
        /\ env.metadata.correlation_id = env.metadata.event_id
        /\ env.metadata.causation_id = env.metadata.event_id

\* C21 witness: the log holds a root envelope written after an envelope of
\* a correlation chain
C21_Witness ==
    /\ created # <<>>
    /\ \E i \in 2..Len(log) :
           /\ ParseEnvelope(log[i].payload).ok
           /\ ParseEnvelope(log[i].payload).envelope \in RootEnvelopes
           /\ ParseEnvelope(log[i].payload).envelope.metadata.event_id = nextId - 1

(***************************************************************************)
(* Subjects of event names: SubjectMapper::event_subject                   *)
(***************************************************************************)
\* the names given to event_subject: the enumerated ones and one it does
\* not know
EventNames == EventActions \cup {"RepositoryMetadataUpdated"}

\* two calls of event_subject, and the subject strings they gave
MapSubjects(first, second) ==
    /\ mapped' = [names |-> <<first, second>>,
                  subjects |-> <<event_subject(first), event_subject(second)>>]
    /\ UNCHANGED exceptSubj

SubjectNext == \E first, second \in EventNames : MapSubjects(first, second)

\* event names mapped to subjects, two at a time
SubjectSpec == Init /\ [][SubjectNext]_vars

\* the aggregates and the past actions of event subjects
SubjectAggregates == {"repository", "commit", "branch", "tag", "remote"}
SubjectPastActions ==
    {"cloned", "deleted", "analyzed", "created", "merged", "added", "removed",
     "fetched", "pushed", "detected"}

\* C22: for the enumerated event names the subject has the form
\* git.event.<aggregate>.<past_action>, and two different event names never
\* map to the same subject string
C22_SubjectsInvertible ==
    (/\ mapped.names # <<>>
     /\ mapped.names[1] \in EventActions
     /\ mapped.names[2] \in EventActions) =>
        /\ \A k \in 1..2 :
               \E a \in SubjectAggregates, p \in SubjectPastActions :
                   mapped.subjects[k] = "git.event." \o a \o "." \o p
        /\ mapped.names[1] # mapped.names[2]
               => mapped.subjects[1] # mapped.subjects[2]

(***************************************************************************)
(* Long-lived tasks and shutdown                                           *)
(***************************************************************************)
\* the tasks that loop on a subscription or on a consumer's message stream
SubscriptionLoops == {"subscriber", "projection", "health_endpoint"}

\* NatsClient::drain: the connection is drained; its subscriptions and
\* message streams end
Drain ==
    /\ ~drained
    /\ drained' = TRUE
    /\ UNCHANGED <<loops, served, beats, exceptSvc>>

\* one turn of `while let Some(message) = subscriber.next().await` (command
\* subscriber, health endpoint) or of `while let Some(Ok(message)) =
\* messages.next().await` (projection): a message is taken while the
\* connection is open; once it is drained next() gives no message and the
\* loop is left
LoopNext(l) ==
    /\ loops[l] = "running"
    /\ IF drained
       THEN /\ loops' = [loops EXCEPT ![l] = "stopped"]
            /\ UNCHANGED served
       ELSE /\ served[l] < MaxServed
            /\ served' = [served EXCEPT ![l] = served[l] + 1]
            /\ UNCHANGED loops
    /\ UNCHANGED <<drained, beats, exceptSvc>>

\* one turn of the heartbeat's `loop`: the tick, then the publish, whose
\* error is logged; the loop has no exit
HeartbeatTick ==
    /\ loops["heartbeat"] = "running"
    /\ beats' = (beats + 1) % (MaxBeats + 1)
    /\ UNCHANGED <<drained, loops, served, exceptSvc>>

ShutdownNext ==
    \/ Drain
    \/ \E l \in SubscriptionLoops : LoopNext(l)
    \/ HeartbeatTick

\* a service with its long-lived tasks, each scheduled again and again
ShutdownSpec ==
    /\ Init
    /\ [][ShutdownNext]_vars
    /\ \A l \in SubscriptionLoops : WF_vars(LoopNext(l))
    /\ WF_vars(HeartbeatTick)

\* C23: after a shutdown signal, every long-lived task (command subscriber
\* loop, projection loops, heartbeat ticker, health endpoint) eventually
\* stops
C23_TasksStopAfterShutdown ==
    drained ~> (\A l \in Loops : loops[l] = "stopped")

(***************************************************************************)
(* Health checks: HealthService::perform_health_check                      *)
(***************************************************************************)
\* the variants of ServiceStatus
ServiceStatuses == {"healthy", "degraded", "unhealthy", "stopping"}

\* names of component checks
CheckNames == {"nats_connection", "event_store", "projections"}

\* the loop body with a Degraded arm that does not look at the status so far
OverallStepOverwriting(overall_status, status) ==
    CASE status = "unhealthy" -> "unhealthy"
      [] status = "degraded"  -> "degraded"
      [] OTHER                -> overall_status

\* the match on component_health.status in the loop body
OverallStep(overall_status, status) ==
    CASE status = "unhealthy" -> "unhealthy"
      [] status = "degraded"  ->
             IF overall_status = "healthy" THEN "degraded" ELSE overall_status
      [] OTHER                -> overall_status

RECURSIVE OverallFrom(_, _, _, _)
\* the loop over checks.iter(), in the order the map yields its entries
OverallFrom(registered_checks, order, i, overall_status) ==
    IF i > Len(order) THEN overall_status
    ELSE OverallFrom(registered_checks, order, i + 1,
                     OverallStep(overall_status, registered_checks[order[i]]))

\* HealthService::perform_health_check
perform_health_check(registered_checks, order) ==
    [status |-> OverallFrom(registered_checks, order, 1, "healthy"),
     checks |-> registered_checks]

\* the orders in which a map with these keys can yield its entries
IterationOrders(keys) ==
    { order \in [1..Cardinality(keys) -> keys] :
        \A i, j \in 1..Cardinality(keys) : i # j => order[i] # order[j] }

\* HealthService::register_check, with the status the check gives from now on
RegisterCheck(name, status) ==
    /\ checks' = [n \in DOMAIN checks \cup {name} |->
                      IF n = name THEN status ELSE checks[n]]
    /\ UNCHANGED <<health, exceptHealth>>

\* a health check request served
PerformHealthCheck(order) ==
    /\ order \in IterationOrders(DOMAIN checks)
    /\ LET result == perform_health_check(checks, order) IN
       health' = [order |-> order, status |-> result.status,
                  checks |-> result.checks, called |-> TRUE]
    /\ UNCHANGED <<checks, exceptHealth>>

HealthNext ==
    \/ \E name \in CheckNames, status \in ServiceStatuses : RegisterCheck(name, status)
    \/ \E order \in UNION { IterationOrders(keys) : keys \in SUBSET CheckNames } :
           PerformHealthCheck(order)

\* a health service: checks registered, health check requests served
HealthSpec == Init /\ [][HealthNext]_vars

\* the order Healthy < Degraded < Unhealthy
StatusRank(status) ==
    CASE status = "healthy" -> 0 [] status = "degraded" -> 1 [] status = "unhealthy" -> 2

\* C24: the overall status of a health check is the worst status among the
\* component checks under Healthy < Degraded < Unhealthy, for any set of
\* checks and any order in which they are evaluated
C24_OverallIsWorst ==
    (/\ health.called
     /\ \A n \in DOMAIN health.checks :
            health.checks[n] \in {"healthy", "degraded", "unhealthy"}) =>
        /\ \A n \in DOMAIN health.checks :
               StatusRank(health.checks[n]) <= StatusRank(health.status)
        /\ \/ \E n \in DOMAIN health.checks : health.checks[n] = health.status
           \/ DOMAIN health.checks = {} /\ health.status = "healthy"

\* C24 witness: a health check evaluated an unhealthy component before a
\* degraded one and before a healthy one
C24_Witness ==
    /\ health.called
    /\ Len(health.order) = 3
    /\ health.checks[health.order[1]] = "unhealthy"
    /\ health.checks[health.order[2]] = "degraded"
    /\ health.checks[health.order[3]] = "healthy"
    /\ health.status = "unhealthy"

(***************************************************************************)
(* The Repository aggregate: Repository::apply_event                       *)
(***************************************************************************)
\* the events applied to the aggregate: <<event type, value, timestamp>>,
\* the value being the local path of a clone or the name of a branch
AggregateEvents ==
    { <<e[1], e[2], timestamp>> :
        e \in { <<"RepositoryCloned", "/tmp/a">>, <<"RepositoryCloned", "/tmp/b">>,
                <<"CommitAnalyzed", "">>, <<"BranchCreated", "main">>,
                <<"BranchCreated", "dev">>, <<"TagCreated", "v1">> },
        timestamp \in 1..2 }

\* the match of apply_event: the fields an event changes
ApplyFields(r, event) ==
    CASE event[1] = "RepositoryCloned" ->
             [r EXCEPT !.remote_url = <<"url">>, !.local_path = <<event[2]>>,
                       !.updated_at = event[3]]
      [] event[1] = "CommitAnalyzed" ->
             [r EXCEPT !.commit_count =
                 <<(IF r.commit_count = <<>> THEN 0 ELSE r.commit_count[1]) + 1>>,
                       !.updated_at = event[3]]
      [] event[1] = "BranchCreated" ->
             [r EXCEPT !.branches = r.branches \cup {event[2]},
                       !.updated_at = event[3]]
      [] OTHER -> r

\* apply_event that counts a version only for the events its match handles
apply_event_handled(r, event) ==
    IF event[1] \in {"RepositoryCloned", "CommitAnalyzed", "BranchCreated"}
    THEN [ApplyFields(r, event) EXCEPT !.version = r.version + 1]
    ELSE r

\* Repository::apply_event
apply_event(r, event) ==
    [ApplyFields(r, event) EXCEPT !.version = r.version + 1]

\* a call of apply_event
ApplyEvent(event) ==
    /\ applied < MaxApplied
    /\ repository' = apply_event(repository, event)
    /\ applied' = applied + 1
    /\ UNCHANGED exceptAgg

\* Repository::clone_repository: refused when the repository has a local
\* path, else the RepositoryCloned event is applied
CloneRepository(local_path) ==
    /\ applied < MaxApplied
    /\ IF repository.local_path # <<>>
       THEN UNCHANGED <<repository, applied>>
       ELSE /\ repository' = apply_event(repository,
                                          <<"RepositoryCloned", local_path, 1>>)
            /\ applied' = applied + 1
    /\ UNCHANGED exceptAgg

AggregateNext ==
    \/ \E event \in AggregateEvents : ApplyEvent(event)
    \/ \E local_path \in {"/tmp/a", "/tmp/b"} : CloneRepository(local_path)

\* one Repository aggregate and the events applied to it
AggregateSpec == Init /\ [][AggregateNext]_vars

\* C25: the aggregate's version starts at 0 and increases by exactly 1 for
\* each event applied through apply_event: after n applied events it is n
C25_VersionCountsApplied == repository.version = applied

\* C25 witness: as many events as a run allows have been applied, among
\* them a clone, a commit and a new branch, and the version is their number
C25_Witness ==
    /\ applied = MaxApplied
    /\ repository.version = MaxApplied
    /\ repository.commit_count = <<1>>
    /\ repository.branches = {"main"}
    /\ repository.local_path # <<>>

(***************************************************************************)
(* CommitHistoryProjection                                                 *)
(***************************************************************************)
\* the list as it is after the push, left as it is
KeepPushOrder(entries) == entries

RECURSIVE InsertNewestFirst(_, _)
\* one step of the stable sort: e goes after every entry not older than it
InsertNewestFirst(sorted, e) ==
    IF sorted = <<>> THEN <<e>>
    ELSE IF sorted[Len(sorted)].timestamp >= e.timestamp
    THEN Append(sorted, e)
    ELSE Append(InsertNewestFirst(SubSeq(sorted, 1, Len(sorted) - 1), e),
                sorted[Len(sorted)])

RECURSIVE SortNewestFirst(_)
\* history.sort_by(|a, b| b.timestamp.cmp(&a.timestamp)), a stable sort
SortNewestFirst(entries) ==
    IF entries = <<>> THEN <<>>
    ELSE InsertNewestFirst(SortNewestFirst(SubSeq(entries, 1, Len(entries) - 1)),
                           entries[Len(entries)])

\* the CommitHistoryEntry of a CommitAnalyzed event
CommitHistoryEntry(hash, commit_timestamp) ==
    [hash |-> hash, timestamp |-> commit_timestamp]

\* the number of entries the projection holds
EntriesHeld == Len(commits["R1"]) + Len(commits["R2"])

\* CommitHistoryProjection::handle_event for a CommitAnalyzed event: the
\* entry is pushed and the list sorted again
HandleCommitAnalyzed(repository_id, commit_timestamp) ==
    /\ EntriesHeld < MaxHandled
    /\ LET entry == CommitHistoryEntry(EntriesHeld + 1, commit_timestamp) IN
       /\ commits' = [commits EXCEPT ![repository_id] =
              SortNewestFirst(Append(commits[repository_id], entry))]
       /\ commitsHandled' = [commitsHandled EXCEPT ![repository_id] =
              commitsHandled[repository_id] \cup {entry}]
    /\ UNCHANGED <<queried, exceptHist>>

\* CommitHistoryProjection::get_history
get_history(history, repository_id, limit) ==
    IF limit = <<>> THEN history[repository_id]
    ELSE SubSeq(history[repository_id], 1,
                IF limit[1] < Len(history[repository_id])
                THEN limit[1] ELSE Len(history[repository_id]))

\* a call of get_history
GetHistory(repository_id, limit) ==
    /\ queried' = [repository_id |-> repository_id, limit |-> limit,
                   history |-> commits[repository_id],
                   result |-> get_history(commits, repository_id, limit),
                   called |-> TRUE]
    /\ UNCHANGED <<commits, commitsHandled, exceptHist>>

HistoryNext ==
    \/ \E r \in Aggregates, t \in 1..MaxCommitTime : HandleCommitAnalyzed(r, t)
    \/ \E r \in Aggregates, limit \in {<<>>} \cup { <<n>> : n \in 0..MaxHandled } :
           GetHistory(r, limit)

\* the commit-history projection fed CommitAnalyzed events and queried
HistorySpec == Init /\ [][HistoryNext]_vars

\* C26: after any sequence of CommitAnalyzed events, in any arrival order,
\* the list of each repository is sorted by commit timestamp descending (and
\* holds the commits handled), and get_history(repo, limit) returns the
\* first limit entries of that list
C26_HistoryNewestFirst ==
    /\ \A r \in Aggregates :
           /\ \A i, j \in 1..Len(commits[r]) :
                  i < j => commits[r][i].timestamp >= commits[r][j].timestamp
           /\ { commits[r][i] : i \in 1..Len(commits[r]) } = commitsHandled[r]
           /\ Len(commits[r]) = Cardinality(commitsHandled[r])
    /\ queried.called =>
           /\ Len(queried.result) <= Len(queried.history)
           /\ queried.limit # <<>> => Len(queried.result) <= queried.limit[1]
           /\ \/ Len(queried.result) = Len(queried.history)
              \/ queried.limit # <<>> /\ Len(queried.result) = queried.limit[1]
           /\ \A i \in 1..Len(queried.result) :
                  queried.result[i] = queried.history[i]

\* C26 witness: commits arrived oldest first, and a query with a limit
\* returned the newest ones only
C26_Witness ==
    /\ Len(commits["R1"]) = 3
    /\ commits["R1"][1].hash = 3
    /\ commits["R1"][3].hash = 1
    /\ commits["R1"][1].timestamp > commits["R1"][3].timestamp
    /\ queried.called
    /\ queried.repository_id = "R1"
    /\ queried.limit = <<2>>
    /\ Len(queried.result) = 2
    /\ queried.history = commits["R1"]

(***************************************************************************)
(* FileChangeProjection                                                    *)
(***************************************************************************)
\* the FileChangeInfo entries of an event
FileChangeInfos ==
    [path : FilePaths, change_type : {"Modified", "Renamed"}]

\* the files_changed lists of the events: up to two entries
FilesChangedLists ==
    {<<>>} \cup { <<i>> : i \in FileChangeInfos }
           \cup { <<i, j>> : i, j \in FileChangeInfos }

\* the FileChange built for one entry of files_changed
FileChangeOf(info, commit_hash) ==
    [path |-> info.path, commit_hash |-> commit_hash,
     change_type |-> info.change_type]

RECURSIVE TrackFiles(_, _, _, _)
\* the loop over event.files_changed: each change is pushed under its path,
\* a rename is noted, and the change is collected for the commit
TrackFiles(acc, files_changed, i, commit_hash) ==
    IF i > Len(files_changed) THEN acc
    ELSE LET info   == files_changed[i]
             change == FileChangeOf(info, commit_hash)
         IN
         TrackFiles(
             [file_changes |->
                  [acc.file_changes EXCEPT ![info.path] = Append(@, change)],
              rename_history |->
                  IF info.change_type = "Renamed"
                  THEN [acc.rename_history EXCEPT ![info.path] =
                            Append(@, [old_path |-> info.path,
                                       new_path |-> info.path,
                                       commit_hash |-> commit_hash])]
                  ELSE acc.rename_history,
              changes_for_commit |-> Append(acc.changes_for_commit, change)],
             files_changed, i + 1, commit_hash)

\* FileChangeProjection::handle_event for a CommitAnalyzed event; the
\* changes collected replace what the commit map holds for the hash
HandleFileChanges(commit_hash, files_changed) ==
    /\ fileHandled < MaxHandled
    /\ LET done == TrackFiles([file_changes |-> file_changes,
                               rename_history |-> rename_history,
                               changes_for_commit |-> <<>>],
                              files_changed, 1, commit_hash)
       IN
       /\ file_changes' = done.file_changes
       /\ rename_history' = done.rename_history
       /\ commit_changes' =
              [h \in DOMAIN commit_changes \cup {commit_hash} |->
                   IF h = commit_hash THEN done.changes_for_commit
                   ELSE commit_changes[h]]
    /\ fileHandled' = fileHandled + 1
    /\ UNCHANGED exceptFile

FileNext ==
    \E h \in CommitHashes, files_changed \in FilesChangedLists :
        HandleFileChanges(h, files_changed)

\* the file-change projection fed CommitAnalyzed events
FileSpec == Init /\ [][FileNext]_vars

\* the number of changes for path p in commit h in the path index
InPathIndex(p, h) ==
    Cardinality({ i \in 1..Len(file_changes[p]) :
                    file_changes[p][i].commit_hash = h })

\* the number of changes for path p in commit h in the commit index
InCommitIndex(p, h) ==
    IF h \in DOMAIN commit_changes
    THEN Cardinality({ i \in 1..Len(commit_changes[h]) :
                         commit_changes[h][i].path = p })
    ELSE 0

\* C27: after any sequence of CommitAnalyzed events, a FileChange for path p
\* in commit h appears in the path index under p exactly as many times as
\* in the commit index under h
C27_IndexesAgree ==
    \A p \in FilePaths, h \in CommitHashes : InPathIndex(p, h) = InCommitIndex(p, h)

(***************************************************************************)
(* CodeQualityAnalyzer::detect_circular_dependencies                       *)
(***************************************************************************)
\* the files of the dependency maps
Files == {"a.rs", "b.rs", "c.rs"}

\* the dependency lists of a file: its dependencies in any order
DependencyLists ==
    UNION { IterationOrders(deps) : deps \in SUBSET Files }

\* the dependency maps: some of the files are keys, each with a list
DependencyMaps ==
    UNION { [keys -> DependencyLists] : keys \in SUBSET Files }

\* the position of the first occurrence of file in path, or 0
Position(path, file) ==
    IF \E i \in 1..Len(path) : path[i] = file
    THEN CHOOSE i \in 1..Len(path) :
             /\ path[i] = file
             /\ \A j \in 1..(i - 1) : path[j] # file
    ELSE 0

\* a return without a cycle that leaves path and rec_stack as they are
StillEntered(st, current) == st

\* path.pop() and rec_stack.remove(current), before a return without a cycle
Unwound(st, current) ==
    [visited   |-> st.visited,
     rec_stack |-> st.rec_stack \ {current},
     path      |-> SubSeq(st.path, 1, Len(st.path) - 1)]

\* rec_stack.contains(neighbor)
OnRecStack(st, neighbor) == neighbor \in st.rec_stack

\* the result of a search that found nothing, with the state it leaves
NoCycle(st) == [st |-> st, found |-> FALSE, cycle |-> <<>>]

RECURSIVE find_cycle(_, _, _)
RECURSIVE VisitNeighbors(_, _, _, _)
\* the loop over the neighbors of current, from the i-th on
VisitNeighbors(current, graph, st, i) ==
    IF i > Len(graph[current]) THEN NoCycle(st)
    ELSE LET neighbor == graph[current][i] IN
         IF neighbor \notin st.visited
         THEN LET below == find_cycle(neighbor, graph, st) IN
              IF below.found THEN below
              ELSE VisitNeighbors(current, graph, below.st, i + 1)
         ELSE IF OnRecStack(st, neighbor) /\ Position(st.path, neighbor) # 0
         THEN [st |-> st, found |-> TRUE,
               cycle |-> SubSeq(st.path, Position(st.path, neighbor), Len(st.path))]
         ELSE VisitNeighbors(current, graph, st, i + 1)

\* CodeQualityAnalyzer::find_cycle; st holds visited, path and rec_stack.
\* A return with a cycle leaves path and rec_stack as they are.
find_cycle(current, graph, st) ==
    LET entered == [visited   |-> st.visited \cup {current},
                    rec_stack |-> st.rec_stack \cup {current},
                    path      |-> Append(st.path, current)]
        after == IF current \in DOMAIN graph
                 THEN VisitNeighbors(current, graph, entered, 1)
                 ELSE NoCycle(entered)
    IN
    IF after.found THEN after
    ELSE NoCycle(Unwound(after.st, current))

RECURSIVE DetectFrom(_, _, _, _, _, _)
\* the loop over the map's entries in the order it yields them; visited and
\* path are carried from one entry to the next, rec_stack is new for each
DetectFrom(graph, order, i, visited, path, cycles) ==
    IF i > Len(order) THEN cycles
    ELSE IF order[i] \in visited
    THEN DetectFrom(graph, order, i + 1, visited, path, cycles)
    ELSE LET r == find_cycle(order[i], graph,
                             [visited |-> visited, path |-> path, rec_stack |-> {}])
         IN
         DetectFrom(graph, order, i + 1, r.st.visited, r.st.path,
                    IF r.found THEN Append(cycles, r.cycle) ELSE cycles)

\* CodeQualityAnalyzer::detect_circular_dependencies: the cycle_files of
\* the events it returns
detect_circular_dependencies(graph, order) ==
    DetectFrom(graph, order, 1, {}, <<>>, <<>>)

\* a call of detect_circular_dependencies
DetectCircularDependencies(graph, order) ==
    /\ order \in IterationOrders(DOMAIN graph)
    /\ detected' = [graph |-> graph, order |-> order,
                    cycles |-> detect_circular_dependencies(graph, order),
                    called |-> TRUE]
    /\ UNCHANGED exceptCycle

\* one call in a run
CycleNext ==
    /\ ~detected.called
    /\ \E graph \in DependencyMaps :
           \E order \in IterationOrders(DOMAIN graph) :
               DetectCircularDependencies(graph, order)

\* dependency maps given to the cycle detection
CycleSpec == Init /\ [][CycleNext]_vars

\* file x depends on file y in the map
DependsOn(graph, x, y) ==
    /\ x \in DOMAIN graph
    /\ \E i \in 1..Len(graph[x]) : graph[x][i] = y

RECURSIVE ReachableWithin(_, _, _)
\* the files reached from the files of S along at least one and at most n
\* dependencies
ReachableWithin(graph, S, n) ==
    IF n = 0 THEN {}
    ELSE LET next == { y \in Files : \E x \in S : DependsOn(graph, x, y) } IN
         next \cup ReachableWithin(graph, next, n - 1)

\* no file depends on itself, directly or through other files
Acyclic(graph) ==
    \A f \in Files : f \notin ReachableWithin(graph, {f}, Cardinality(Files))

\* the graph {a -> b, b -> c, c -> a}
ThreeCycle ==
    [f \in Files |->
        CASE f = "a.rs" -> <<"b.rs">> [] f = "b.rs" -> <<"c.rs">> [] f = "c.rs" -> <<"a.rs">>]

\* C28: detect_circular_dependencies reports zero cycles for every acyclic
\* dependency graph, and exactly one cycle of length 3 for the graph
\* {a -> b, b -> c, c -> a}, whatever the iteration order of the map
C28_CyclesDetected ==
    detected.called =>
        /\ Acyclic(detected.graph) => detected.cycles = <<>>
        /\ detected.graph = ThreeCycle =>
               /\ Len(detected.cycles) = 1
               /\ Len(detected.cycles[1]) = 3

\* C28 witness: the three-file cycle was given with b.rs iterated first, and
\* one cycle of three files was reported
C28_Witness ==
    /\ detected.called
    /\ detected.graph = ThreeCycle
    /\ detected.order = <<"b.rs", "c.rs", "a.rs">>
    /\ detected.cycles = << <<"b.rs", "c.rs", "a.rs">> >>

\* C29: for every input dependency map, every cycle reported contains at
\* least 2 files
C29_CyclesHaveTwoFiles ==
    \A k \in 1..Len(detected.cycles) : Len(detected.cycles[k]) >= 2

(***************************************************************************)
(* CodeQualityAnalyzer::calculate_risk_level                               *)
(***************************************************************************)
\* CodeQualityAnalyzer::new: the thresholds
LargeFileThreshold == 500
HighComplexityThreshold == 10

\* the cyclomatic complexities (None or Some) and the file sizes of the runs
Complexities == {<<>>, <<0>>, <<5>>, <<10>>, <<20>>}
LinesOfCode == {0, 250, 500, 1000, 2000}

\* a risk score to which churn does not add but from which it takes
RiskScoreLessChurn(churn_rate, complexity, lines_of_code) ==
    (IF complexity = <<>> THEN 0
     ELSE (1000 * complexity[1]) \div HighComplexityThreshold)
    + ((1000 * lines_of_code) \div LargeFileThreshold) \div 2
    - 200 * churn_rate

\* risk_score, in thousandths; churn_rate is in tenths:
\* churn_rate * 2.0 + complexity / threshold + lines / threshold * 0.5
RiskScore(churn_rate, complexity, lines_of_code) ==
    200 * churn_rate
    + (IF complexity = <<>> THEN 0
       ELSE (1000 * complexity[1]) \div HighComplexityThreshold)
    + ((1000 * lines_of_code) \div LargeFileThreshold) \div 2

\* CodeQualityAnalyzer::calculate_risk_level
calculate_risk_level(churn_rate, complexity, lines_of_code) ==
    LET risk_score == RiskScore(churn_rate, complexity, lines_of_code) IN
    CASE risk_score >= 3000 -> "Critical"
      [] risk_score >= 2000 -> "High"
      [] risk_score >= 1000 -> "Medium"
      [] OTHER              -> "Low"

\* the risk level of one file computed for two churn rates
CalculateRiskLevels(first, second, complexity, lines_of_code) ==
    /\ risk' = [churn_rates |-> <<first, second>>, complexity |-> complexity,
                lines_of_code |-> lines_of_code,
                levels |-> <<calculate_risk_level(first, complexity, lines_of_code),
                             calculate_risk_level(second, complexity, lines_of_code)>>,
                called |-> TRUE]
    /\ UNCHANGED exceptRisk

\* one file in a run
RiskNext ==
    /\ ~risk.called
    /\ \E first, second \in 0..MaxChurn, complexity \in Complexities,
          lines_of_code \in LinesOfCode :
           CalculateRiskLevels(first, second, complexity, lines_of_code)

\* risk levels computed for files at two churn rates
RiskSpec == Init /\ [][RiskNext]_vars

\* the order Low < Medium < High < Critical
RiskRank(level) ==
    CASE level = "Low" -> 0 [] level = "Medium" -> 1
      [] level = "High" -> 2 [] level = "Critical" -> 3

\* C30: for fixed complexity and lines_of_code, if churn_rate1 <= churn_rate2
\* then the risk level for churn_rate1 is not higher than the one for
\* churn_rate2, under Low < Medium < High < Critical
C30_RiskMonotoneInChurn ==
    (risk.called /\ risk.churn_rates[1] <= risk.churn_rates[2]) =>
        RiskRank(risk.levels[1]) <= RiskRank(risk.levels[2])

\* C30 witness: for one file the lower churn rate gave Low and the higher
\* one Critical
C30_Witness ==
    /\ risk.called
    /\ risk.churn_rates[1] < risk.churn_rates[2]
    /\ risk.levels = <<"Low", "Critical">>

\* ---------------------------------------------------------------------
\* Code ownership (analyzers/collaboration_analyzer.rs)
\* ---------------------------------------------------------------------

\* longest commit list of a file
MaxCommits == 2

\* author identities (AuthorInfo); the strings stand for name and email
Authors == {"alice", "bob", "carol"}

\* the commits of a file: the author of each, in order (the timestamp of a
\* commit is not read by calculate_ownership)
CommitLists ==
    UNION { [1..n -> Authors] : n \in 0..MaxCommits }

\* author_counts: per author of the list, the number of its commits
AuthorCounts(file_commit_list) ==
    [a \in { file_commit_list[i] : i \in DOMAIN file_commit_list } |->
        Cardinality({ i \in DOMAIN file_commit_list : file_commit_list[i] = a })]

\* author_counts.iter().max_by_key(|(_, count)| *count): of several equally
\* maximum elements, max_by_key returns the last one the iterator yields
LastMaximum(author_counts, order) ==
    order[CHOOSE i \in DOMAIN order :
              /\ \A j \in DOMAIN order :
                     author_counts[order[j]] <= author_counts[order[i]]
              /\ \A j \in (i + 1)..Len(order) :
                     author_counts[order[j]] < author_counts[order[i]]]

RECURSIVE InsertByShare(_, _)
\* one step of the stable sort: c goes after every contributor whose share
\* is not smaller
InsertByShare(sorted, c) ==
    IF sorted = <<>> THEN <<c>>
    ELSE IF sorted[Len(sorted)][2] >= c[2]
    THEN Append(sorted, c)
    ELSE Append(InsertByShare(SubSeq(sorted, 1, Len(sorted) - 1), c),
                sorted[Len(sorted)])

RECURSIVE SortByShare(_)
\* contributors.sort_by(|a, b| b.1.partial_cmp(&a.1).unwrap()), a stable
\* sort; every share of a file has the same denominator, so shares compare
\* as the counts do
SortByShare(contributors) ==
    IF contributors = <<>> THEN <<>>
    ELSE InsertByShare(SortByShare(SubSeq(contributors, 1, Len(contributors) - 1)),
                       contributors[Len(contributors)])

\* the entries of author_counts other than the primary owner, in map order
OtherContributors(author_counts, order, primary_owner) ==
    LET kept == SelectSeq(order, LAMBDA a : a # primary_owner) IN
    [i \in DOMAIN kept |-> <<kept[i], author_counts[kept[i]]>>]

\* the CodeOwnershipCalculated of one file; a share is kept as its numerator,
\* over total_commits
OwnershipOf(file_path, file_commit_list, order) ==
    LET author_counts == AuthorCounts(file_commit_list)
        primary_owner == LastMaximum(author_counts, order)
    IN  [path |-> file_path,
         primary_owner |-> primary_owner,
         primary_count |-> author_counts[primary_owner],
         contributors |->
             SortByShare(OtherContributors(author_counts, order, primary_owner)),
         total_commits |-> Len(file_commit_list)]

RECURSIVE OwnershipFrom(_, _, _, _)
\* the loop over file_commits, in the order the map yields its entries; a
\* file without commits is passed over
OwnershipFrom(file_commits, file_order, author_orders, i) ==
    IF i > Len(file_order) THEN <<>>
    ELSE LET file_path == file_order[i] IN
         (IF Len(file_commits[file_path]) = 0 THEN <<>>
          ELSE <<OwnershipOf(file_path, file_commits[file_path],
                             author_orders[file_path])>>)
         \o OwnershipFrom(file_commits, file_order, author_orders, i + 1)

\* CollaborationAnalyzer::calculate_ownership
calculate_ownership(file_commits, file_order, author_orders) ==
    OwnershipFrom(file_commits, file_order, author_orders, 1)

\* one call, with the orders in which its hash maps yield their entries
CalculateOwnership(file_commits, file_order, author_orders) ==
    /\ owned' = [file_commits |-> file_commits, file_order |-> file_order,
                 author_orders |-> author_orders,
                 events |-> calculate_ownership(file_commits, file_order,
                                                author_orders),
                 called |-> TRUE]
    /\ UNCHANGED exceptOwn

\* one call in a run
OwnershipNext ==
    /\ ~owned.called
    /\ \E file_commits \in [FilePaths -> CommitLists],
          file_order \in IterationOrders(FilePaths) :
         \E author_orders \in
               [FilePaths -> UNION { IterationOrders(s) : s \in SUBSET Authors }] :
            /\ \A f \in FilePaths :
                   author_orders[f] \in
                       IterationOrders(DOMAIN AuthorCounts(file_commits[f]))
            /\ CalculateOwnership(file_commits, file_order, author_orders)

\* ownership computed for the files of a repository
OwnershipSpec == Init /\ [][OwnershipNext]_vars

\* lexicographic order of the author identities
AuthorRank(author) ==
    CASE author = "alice" -> 1 [] author = "bob" -> 2 [] author = "carol" -> 3

\* the authors with the most commits in a list
TopAuthors(file_commit_list) ==
    LET author_counts == AuthorCounts(file_commit_list) IN
    { a \in DOMAIN author_counts :
        \A b \in DOMAIN author_counts : author_counts[b] <= author_counts[a] }

\* C31: the primary_owner of a file is an author with the most commits to
\* it, and among several such authors the lexicographically first one, so
\* that the same input always gives the same primary_owner
C31_PrimaryOwnerDeterministic ==
    owned.called =>
        \A i \in DOMAIN owned.events :
            LET top == TopAuthors(owned.file_commits[owned.events[i].path]) IN
            /\ owned.events[i].primary_owner \in top
            /\ \A a \in top :
                   AuthorRank(owned.events[i].primary_owner) <= AuthorRank(a)

\* ---------------------------------------------------------------------
\* Cache (cache.rs)
\* ---------------------------------------------------------------------

\* the time-to-live the cache is made with (GitCache::with_ttl), in ticks
CacheTtl == 1

\* the clock stops at this instant
MaxInstant == 2

GraphIds == {"g1", "g2"}

\* DependencyInfo values
DependencyInfos ==
    { [graph_id |-> g, file_count |-> 1, dependency_count |-> 0] : g \in GraphIds }

\* keys of commit_graphs: (RepositoryId, Option<CommitHash>)
CommitGraphKeys == { <<"R1", start>> : start \in {<<>>, <<"abc123d">>} }

\* keys of dependency_graphs: (RepositoryId, CommitHash)
DependencyGraphKeys == { <<"R1", "abc123d">> }

\* an entry that is never taken as expired
never_expired(entry, at) == FALSE

\* CacheEntry::new at the instant `at`
CacheEntryNew(value, ttl, at) ==
    [value |-> value, expires_at |-> at + ttl]

\* CacheEntry::is_expired at the instant `at`
is_expired(entry, at) ==
    at > entry.expires_at

\* cache.get(&key).filter(|entry| !entry.is_expired()).map(|entry| entry.value)
GetUnexpired(cache, key, at) ==
    IF key \in DOMAIN cache /\ ~is_expired(cache[key], at)
    THEN <<cache[key].value>>
    ELSE <<>>

\* cache.insert(key, entry)
Inserted(cache, key, entry) ==
    [k \in DOMAIN cache \cup {key} |-> IF k = key THEN entry ELSE cache[k]]

\* cache.retain(|_, entry| !entry.is_expired())
Retained(cache, at) ==
    [k \in { k \in DOMAIN cache : ~is_expired(cache[k], at) } |-> cache[k]]

\* time passes on the monotonic clock
InstantPasses ==
    /\ instant < MaxInstant
    /\ instant' = instant + 1
    /\ UNCHANGED <<commit_graphs, dependency_graphs, lastCached, got>>
    /\ UNCHANGED exceptCache

\* what was last cached under a key, and when: <<>> or one record
LastCachedUnder(cache, key) ==
    IF <<cache, key>> \in DOMAIN lastCached
    THEN <<lastCached[<<cache, key>>]>> ELSE <<>>

\* GitCache::cache_commit_graph
CacheCommitGraph(key, graph_id) ==
    /\ commit_graphs' =
           Inserted(commit_graphs, key, CacheEntryNew(graph_id, CacheTtl, instant))
    /\ lastCached' = Inserted(lastCached, <<"commit", key>>,
                              [value |-> graph_id, at |-> instant])
    /\ UNCHANGED <<instant, dependency_graphs, got>>
    /\ UNCHANGED exceptCache

\* GitCache::get_commit_graph
GetCommitGraph(key) ==
    /\ got' = [cache |-> "commit", key |-> key, at |-> instant,
               held |-> key \in DOMAIN commit_graphs,
               cached |-> LastCachedUnder("commit", key),
               result |-> GetUnexpired(commit_graphs, key, instant)]
    /\ UNCHANGED <<instant, commit_graphs, dependency_graphs, lastCached>>
    /\ UNCHANGED exceptCache

\* GitCache::cache_dependency_graph
CacheDependencyGraph(key, info) ==
    /\ dependency_graphs' =
           Inserted(dependency_graphs, key, CacheEntryNew(info, CacheTtl, instant))
    /\ lastCached' = Inserted(lastCached, <<"dependency", key>>,
                              [value |-> info, at |-> instant])
    /\ UNCHANGED <<instant, commit_graphs, got>>
    /\ UNCHANGED exceptCache

\* GitCache::get_dependency_graph
GetDependencyGraph(key) ==
    /\ got' = [cache |-> "dependency", key |-> key, at |-> instant,
               held |-> key \in DOMAIN dependency_graphs,
               cached |-> LastCachedUnder("dependency", key),
               result |-> GetUnexpired(dependency_graphs, key, instant)]
    /\ UNCHANGED <<instant, commit_graphs, dependency_graphs, lastCached>>
    /\ UNCHANGED exceptCache

\* GitCache::clear
CacheClear ==
    /\ commit_graphs' = <<>>
    /\ dependency_graphs' = <<>>
    /\ UNCHANGED <<instant, lastCached, got>>
    /\ UNCHANGED exceptCache

\* GitCache::evict_expired
EvictExpired ==
    /\ commit_graphs' = Retained(commit_graphs, instant)
    /\ dependency_graphs' = Retained(dependency_graphs, instant)
    /\ UNCHANGED <<instant, lastCached, got>>
    /\ UNCHANGED exceptCache

CacheNext ==
    \/ InstantPasses
    \/ \E key \in CommitGraphKeys, graph_id \in GraphIds :
           CacheCommitGraph(key, graph_id)
    \/ \E key \in CommitGraphKeys : GetCommitGraph(key)
    \/ \E key \in DependencyGraphKeys, info \in DependencyInfos :
           CacheDependencyGraph(key, info)
    \/ \E key \in DependencyGraphKeys : GetDependencyGraph(key)
    \/ CacheClear
    \/ EvictExpired

\* a cache used over time
CacheSpec == Init /\ [][CacheNext]_vars

\* C32: get_commit_graph and get_dependency_graph never return an entry
\* whose age since it was cached exceeds the TTL, what they return is the
\* value that was cached, and an entry the map holds whose age does not
\* exceed the TTL is returned
C32_NoExpiredEntryReturned ==
    got.cache # None =>
        /\ got.result # <<>> =>
               /\ got.held
               /\ got.cached # <<>>
               /\ got.at - got.cached[1].at <= CacheTtl
               /\ got.result[1] = got.cached[1].value
        /\ (got.held /\ got.at - got.cached[1].at <= CacheTtl)
               => got.result = <<got.cached[1].value>>

\* C32 witness: a get at the last instant of an entry's life returned the
\* value cached over an earlier one
C32_Witness ==
    /\ got.cache = "dependency"
    /\ got.result # <<>>
    /\ got.result[1].graph_id = "g2"
    /\ got.at = got.cached[1].at + CacheTtl
    /\ got.at = MaxInstant

\* ---------------------------------------------------------------------
\* Command subscribers with their own registries (nats/subscriber.rs)
\* ---------------------------------------------------------------------

\* CommandSubscriber::new for every instance: the registries are empty
RegistryInit ==
    /\ InitStore
    /\ InitProj
    /\ InitCmd
    /\ InitOps
    /\ InitDom
    /\ registered = {}
    /\ handlers = [d \in Dispatchers |-> <<>>]

RegistryNext ==
    \/ \E d \in Dispatchers : RegisterHandler(d, "CloneRepository")
    \/ \E d \in Dispatchers : DispatcherStart(d)
    \/ \E c \in WaitCmdIds, t \in CommandTypes, b \in CommandPayloads :
           PublishCommand(c, t, b)
    \/ \E d \in Dispatchers, c \in CmdIds : HandleReceived(d, c)
    \/ \E d \in Dispatchers, c \in CmdIds : HandleDispatch(d, c)
    \/ \E d \in Dispatchers, c \in CmdIds, ok \in BOOLEAN : HandleInvoke(d, c, ok)

\* instances that register handlers, subscribe and handle one command
RegistrySpec == RegistryInit /\ [][RegistryNext]_vars

\* the statuses published on git.ack.<c>
StatusesOn(c) ==
    { ackStream[c][i].status : i \in 1..Len(ackStream[c]) }

\* C33: Rejected is published for a command only if Processing has not been
\* published for it: no command's ack stream holds both Processing and
\* Rejected
C33_NoRejectedWithProcessing ==
    \A c \in CmdIds : ~({"Processing", "Rejected"} \subseteq StatusesOn(c))

\* ---------------------------------------------------------------------
\* Concurrent appends (nats/event_store.rs)
\* ---------------------------------------------------------------------

\* two returned append calls overlapped: neither started after the other
\* had returned
Concurrent(i, j) ==
    /\ i # j
    /\ ~ReturnedBefore(i, j)
    /\ ~ReturnedBefore(j, i)

\* C34: when two appends to the same log overlap, each returns the sequence
\* at which its own envelope is stored: the two returned sequences differ,
\* and the message at a returned sequence is the envelope that append wrote
C34_ConcurrentAppendsReturnOwnSequence ==
    \A i, j \in 1..Len(completed) :
        Concurrent(i, j) =>
            /\ completed[i].returned # completed[j].returned
            /\ completed[i].returned \in 1..Len(log)
            /\ ParseEnvelope(log[completed[i].returned].payload).ok
            /\ ParseEnvelope(log[completed[i].returned].payload).envelope
                   = completed[i].envelope

\* ---------------------------------------------------------------------
\* Terminal acknowledgments (nats/subscriber.rs, nats/command_ack.rs)
\* ---------------------------------------------------------------------

\* the spawned handle_message tasks are scheduled, and a handler invoked
\* returns
RegistryFairness ==
    \A d \in Dispatchers, c \in CmdIds :
        /\ WF_vars(HandleReceived(d, c))
        /\ WF_vars(HandleDispatch(d, c))
        /\ WF_vars(\E ok \in BOOLEAN : HandleInvoke(d, c, ok))

\* RegistrySpec with its tasks scheduled
RegistryLiveSpec == RegistrySpec /\ RegistryFairness

\* the positions on git.ack.<c> of the terminal acks instance d published
TerminalAcksBy(d, c) ==
    { i \in 1..Len(ackStream[c]) :
        /\ ackStream[c][i].handler_id = d
        /\ is_terminal(ackStream[c][i].status) }

RECURSIVE HandledInLog(_, _)
\* the envelopes among the first n messages of the log whose event type the
\* projection handles, in log order
HandledInLog(p, n) ==
    IF n = 0 THEN <<>>
    ELSE LET parsed == ParseEnvelope(log[n].payload) IN
         IF parsed.ok /\ handles_event_type(p, EnvelopeEventType(parsed.envelope))
         THEN Append(HandledInLog(p, n - 1), parsed.envelope)
         ELSE HandledInLog(p, n - 1)

RECURSIVE AppliedInOrder(_)
\* the stats of an empty RepositoryStatsProjection after apply of each of
\* the envelopes, in order
AppliedInOrder(envelopes) ==
    IF envelopes = <<>> THEN EmptyStats
    ELSE StatsApply(AppliedInOrder(SubSeq(envelopes, 1, Len(envelopes) - 1)),
                    envelopes[Len(envelopes)], 0)

LoadCalls == {"load_aggregate_events", "load_by_correlation", "get_events_after"}

\* what the body of the call's loop pushes for one delivered message
KeptOf(call, arg, message) ==
    CASE call = "load_aggregate_events" -> LoadFrom(<<message>>, 1, arg)
      [] call = "load_by_correlation"   -> CorrelatedFrom(<<message>>, 1, arg)
      [] call = "get_events_after"      -> EventsFrom(<<message>>, 1, 1)

\* get_events_after: while events.len() < max_events fails
LimitReached(r) ==
    /\ r.call = "get_events_after"
    /\ r.limit # <<>>
    /\ Len(r.events) >= r.limit[1]

\* the call up to consumer.messages(): the consumer delivers from the start
\* of the stream, or from start_sequence + 1 for get_events_after
StartLoad(call, arg, limit) ==
    /\ reader.pc = "idle"
    /\ call = "get_events_after" => arg \in 0..Len(log)
    /\ call # "get_events_after" => limit = <<>>
    /\ call = "load_aggregate_events" => arg \in Aggregates
    /\ reader' = [pc |-> "reading", call |-> call, arg |-> arg, limit |-> limit,
                  cursor |-> IF call = "get_events_after" THEN arg ELSE 0,
                  events |-> <<>>]
    /\ UNCHANGED exceptLoad

\* messages.next().await yields the next stored message and the loop body
\* runs. With nothing stored past the cursor the future stays pending: the
\* stream of consumer.messages() asks the server again whenever a request
\* runs out, which is what process_events relies on to be fed the events
\* appended after it has caught up
ReadMessage ==
    /\ reader.pc = "reading"
    /\ ~LimitReached(reader)
    /\ reader.cursor < Len(log)
    /\ reader' = [reader EXCEPT
           !.cursor = @ + 1,
           !.events = @ \o KeptOf(reader.call, reader.arg, log[reader.cursor + 1])]
    /\ UNCHANGED exceptLoad

\* get_events_after leaves its loop when events.len() has reached max_events,
\* and returns
ReturnAtLimit ==
    /\ reader.pc = "reading"
    /\ LimitReached(reader)
    /\ reader' = [reader EXCEPT !.pc = "returned"]
    /\ UNCHANGED exceptLoad

\* envelopes are stored while no load call is under way; then one call runs
LoadNext ==
    \/ /\ reader.pc = "idle"
       /\ \E e \in ReplayEnvelopes : WriteEnvelope(e[1], e[2], e[3])
    \/ \E a \in Aggregates : StartLoad("load_aggregate_events", a, <<>>)
    \/ \E c \in 1..MaxLog : StartLoad("load_by_correlation", c, <<>>)
    \/ \E s \in 0..MaxLog, limit \in Limits : StartLoad("get_events_after", s, limit)
    \/ ReadMessage
    \/ ReturnAtLimit

\* the task of the call is scheduled and the server answers its requests
LoadFairness ==
    /\ WF_vars(ReadMessage)
    /\ WF_vars(ReturnAtLimit)

\* a finite log read by one load call, with nothing appended meanwhile
LoadSpec == Init /\ [][LoadNext]_vars /\ LoadFairness

\* C38: on a log of finitely many events with nothing appended meanwhile,
\* load_aggregate_events, load_by_correlation and get_events_after(s, None)
\* return once the last stored event has been read
C38_LoadsReturnAtEndOfLog ==
    (reader.pc = "reading" /\ reader.limit = <<>>) ~> (reader.pc = "returned")

\* ---------------------------------------------------------------------
\* The locks of the ProjectionManager (nats/projection.rs)
\* ---------------------------------------------------------------------

\* the domain variables but the load call and the manager calls
exceptLoadMgr ==
    <<subjVars, svcVars, healthVars, aggVars, histVars, fileVars, cycleVars,
      riskVars, ownVars, cacheVars, regVars>>

\* status(), called: it asks for a read guard of the projections map
StatusCall ==
    /\ manager.status = "idle"
    /\ manager' = [manager EXCEPT !.status = "waiting"]
    /\ UNCHANGED exceptMgr

\* status(): projections.read().await is granted while no write guard is held
StatusLock ==
    /\ manager.status = "waiting"
    /\ projLock = None
    /\ manager' = [manager EXCEPT !.status = "locked",
                                  !.readers = @ \cup {"status"}]
    /\ UNCHANGED exceptMgr

\* status(): for every projection its position and running_states.read() of
\* its name; the guard of running_states lives for that expression only, and
\* the guard of the projections map is dropped at the return
StatusDone ==
    /\ manager.status = "locked"
    /\ manager' = [manager EXCEPT
           !.status = "idle",
           !.readers = @ \ {"status"},
           !.reported = [p \in registered |->
                            [position |-> position[p], is_running |-> running[p]]]]
    /\ UNCHANGED exceptMgr

\* start_all(), called
StartAllCall ==
    /\ manager.start_all = "idle"
    /\ \E p \in registered : task[p].pc = "none"
    /\ manager' = [manager EXCEPT !.start_all = "waiting"]
    /\ UNCHANGED exceptMgr

\* start_all(): projections.read().await
StartAllLock ==
    /\ manager.start_all = "waiting"
    /\ projLock = None
    /\ manager' = [manager EXCEPT !.start_all = "locked",
                                  !.readers = @ \cup {"start_all"}]
    /\ UNCHANGED exceptMgr

\* start_all(): start_projection(name) for a projection of the map, under
\* the read guard; start_projection takes running_states.write() for the
\* insert only and asks for no guard of the projections map
StartAllNext(p) ==
    /\ manager.start_all = "locked"
    /\ StartProjection(p)

\* start_all(): the loop is through and the read guard is dropped
StartAllDone ==
    /\ manager.start_all = "locked"
    /\ \A p \in registered : task[p].pc # "none"
    /\ manager' = [manager EXCEPT !.start_all = "idle",
                                  !.readers = @ \ {"start_all"}]
    /\ UNCHANGED exceptMgr

\* rebuild_projection(name), called: it asks for the write guard
RebuildCall ==
    /\ manager.rebuild = "idle"
    /\ manager' = [manager EXCEPT !.rebuild = "waiting"]
    /\ UNCHANGED exceptMgr

\* rebuild_projection(name) from projections.write().await to the await of
\* get_events_after(0, None): the write guard is taken, the projection is
\* reset, and the replay is read through consumer.messages(). The rest of
\* the function runs when that call returns, with the guard held until then
RebuildLock(p) ==
    /\ manager.rebuild = "waiting"
    /\ p \in registered
    /\ projLock = None
    /\ manager.readers = {}
    /\ reader.pc = "idle"
    /\ projLock' = "rebuild"
    /\ manager' = [manager EXCEPT !.rebuild = "fetching"]
    /\ stats' = ProjectionReset(p, stats)
    /\ position' = [position EXCEPT ![p] = <<>>]
    /\ applyHist' = [applyHist EXCEPT ![p] = <<>>]
    /\ appliedEvents' = [appliedEvents EXCEPT ![p] = <<>>]
    /\ lastApplied' = [lastApplied EXCEPT ![p] = <<>>]
    /\ reader' = [pc |-> "reading", call |-> "get_events_after", arg |-> 0,
                  limit |-> <<>>, cursor |-> 0, events |-> <<>>]
    /\ UNCHANGED <<registered, running, task, ackFloor, ackedOutcomes, ackedSeqs,
                   consumers, storeVars, cmdVars, opsVars, exceptLoadMgr>>

ManagerNext ==
    \/ \E e \in LockEnvelopes : WriteEnvelope(e[1], e[2], e[3])
    \/ \E p \in Projs : StartProjection(p)
    \/ \E p \in Projs : DeliveryLock(p)
    \/ \E p \in Projs, ok \in BOOLEAN : DeliveryApply(p, ok)
    \/ \E p \in Projs : ProcessAck(p)
    \/ StatusCall
    \/ StatusLock
    \/ StatusDone
    \/ StartAllCall
    \/ StartAllLock
    \/ \E p \in Projs : StartAllNext(p)
    \/ StartAllDone
    \/ RebuildCall
    \/ \E p \in Projs : RebuildLock(p)
    \/ ReadMessage

\* every task that can run is run, a lock asked for is granted in turn, the
\* server answers, and every apply returns
ManagerFairness ==
    /\ \A p \in Projs : SF_vars(DeliveryLock(p))
    /\ \A p \in Projs : WF_vars(\E ok \in BOOLEAN : DeliveryApply(p, ok))
    /\ \A p \in Projs : WF_vars(ProcessAck(p))
    /\ SF_vars(StatusLock)
    /\ WF_vars(StatusDone)
    /\ SF_vars(StartAllLock)
    /\ \A p \in Projs : WF_vars(StartAllNext(p))
    /\ WF_vars(StartAllDone)
    /\ SF_vars(\E p \in Projs : RebuildLock(p))
    /\ WF_vars(ReadMessage)

\* a ProjectionManager with every projection registered and its calls
ManagerSpec == LockInit /\ [][ManagerNext]_vars /\ ManagerFairness

\* a delivery for which the task of p waits for the write guard
AwaitsWriteGuard(p) ==
    /\ task[p].pc = "next"
    /\ ackFloor[p] < Len(log)
    /\ ParseEnvelope(log[ackFloor[p] + 1].payload).ok

\* C39: no interleaving of start_all, start_projection, rebuild_projection,
\* status and the projection tasks leaves a task of the manager waiting for
\* ever for a guard of the projections map or of running_states
C39_ManagerDeadlockFree ==
    /\ (manager.status = "waiting") ~> (manager.status = "locked")
    /\ (manager.start_all = "waiting") ~> (manager.start_all = "locked")
    /\ (manager.rebuild = "waiting") ~> (manager.rebuild = "fetching")
    /\ \A p \in Projs : AwaitsWriteGuard(p) ~> (task[p].pc = "apply")

\* ---------------------------------------------------------------------
\* Event type names of envelopes and their subjects
\* ---------------------------------------------------------------------

\* the names EventEnvelope::event_type returns, one for each arm of its match
EnvelopeEventTypes ==
    { "RepositoryCloned", "CommitAnalyzed", "BranchCreated", "BranchDeleted",
      "TagCreated", "RepositoryMetadataUpdated", "MergeDetected",
      "FileAnalyzed", "RepositoryAnalyzed" }

\* an event store appending envelopes of every event type name
EnvelopeNext ==
    \/ \E s \in Stores, event_type \in EnvelopeEventTypes, agg \in Aggregates :
           AppendPublish(s, event_type, agg, 1)
    \/ \E s \in Stores : AppendInfo(s)

EnvelopeSpec == Init /\ [][EnvelopeNext]_vars

\* C40: every event type name an envelope can have is mapped to a subject:
\* no append of an envelope, of whatever event type, fails with InvalidSubject
C40_EveryEventTypeHasSubject ==
    \A s \in Stores : appendState[s].error # "InvalidSubject"

====
